---- MODULE Spec2Model ----
(***************************************************************************)
(* jsonmtz: conversion between the MTZ reflection record (MTZ struct of    *)
(* cmtzlib) and a JSON tree (jansson json_t).  The model follows           *)
(* src/jsonmtz.c: the shape validator, the reader readMtz, the builder     *)
(* makeMtz and their helpers, the timestamp line, the conversions mtz2json *)
(* and json2mtz, and the two executables (src/mtz2json.c, src/json2mtz.c). *)
(*                                                                         *)
(* Representation.                                                         *)
(*   json_t*   a record tagged by t: "NULL" is the null pointer, the other *)
(*             tags are jansson's types.  An object is a function from its *)
(*             keys to its values, an array a sequence.                    *)
(*   char*     a sequence of character codes (0 is NUL, 32 the space).     *)
(*   float     an integer code; FNAN is the code of the not-a-number bit   *)
(*             pattern that cmtzlib uses as "missing number flag".         *)
(*   log       the allocations, releases and calls of a run, in order.     *)
(***************************************************************************)
EXTENDS Integers, Sequences, FiniteSets, TLC

VARIABLES mode, pc, node, dim, check, ret, json_in, mtz_in, mtz_out, json_out,
          env, log, timestamp

vars == <<mode, pc, node, dim, check, ret, json_in, mtz_in, mtz_out, json_out,
          env, log, timestamp>>

(***************************************************************************)
(* Bounds of the model.                                                    *)
(***************************************************************************)
MaxDim == 2

(***************************************************************************)
(* jansson values and the accessors jsonmtz.c uses.                        *)
(***************************************************************************)
NULL == [t |-> "NULL"]
JNull == [t |-> "null"]
JInt(i) == [t |-> "integer", i |-> i]
JReal(r) == [t |-> "real", r |-> r]
JStr(s) == [t |-> "string", s |-> s]
JArr(a) == [t |-> "array", a |-> a]
JObj(o) == [t |-> "object", o |-> o]

json_is_array(j) == j.t = "array"
json_is_object(j) == j.t = "object"
json_is_string(j) == j.t = "string"
json_is_integer(j) == j.t = "integer"
json_is_real(j) == j.t = "real"

\* 0 for anything that is not an array, the null pointer included
json_array_size(j) == IF j.t = "array" THEN Len(j.a) ELSE 0

\* index is 0-based as in C; NULL when j is no array or index is out of range
json_array_get(j, index) ==
    IF j.t = "array" /\ index >= 0 /\ index < Len(j.a) THEN j.a[index + 1] ELSE NULL

\* NULL when j is no object or has no such key
json_object_get(j, key) ==
    IF j.t = "object" /\ key \in DOMAIN j.o THEN j.o[key] ELSE NULL

json_real_value(j) == IF j.t = "real" THEN j.r ELSE 0
json_integer_value(j) == IF j.t = "integer" THEN j.i ELSE 0

\* json_unpack(j, "{s:o}", key, &x) with x initialised to NULL
json_unpack_o(j, key) == json_object_get(j, key)

(***************************************************************************)
(* Homogeneity predicates, jsonmtz.c 589-671.  Each loops to               *)
(* json_array_size(json), so each returns 1 on a value that is no array.   *)
(***************************************************************************)
json_array_is_homogenous_object(j) ==
    IF \E i \in 0..(json_array_size(j) - 1) : ~json_is_object(json_array_get(j, i))
    THEN 0 ELSE 1

json_array_is_homogenous_array(j) ==
    IF \E i \in 0..(json_array_size(j) - 1) : ~json_is_array(json_array_get(j, i))
    THEN 0 ELSE 1

json_array_is_homogenous_string(j) ==
    IF \E i \in 0..(json_array_size(j) - 1) : ~json_is_string(json_array_get(j, i))
    THEN 0 ELSE 1

json_array_is_homogenous_integer(j) ==
    IF \E i \in 0..(json_array_size(j) - 1) : ~json_is_integer(json_array_get(j, i))
    THEN 0 ELSE 1

json_array_is_homogenous_real(j) ==
    IF \E i \in 0..(json_array_size(j) - 1) : ~json_is_real(json_array_get(j, i))
    THEN 0 ELSE 1

json_truth(j) == 1

\* (*inner_check_function)(json): the function pointer is modelled by its name
inner_check_function(f, j) ==
    CASE f = "json_truth" -> json_truth(j)
      [] f = "json_array_is_homogenous_real" -> json_array_is_homogenous_real(j)
      [] f = "json_array_is_homogenous_integer" -> json_array_is_homogenous_integer(j)
      [] f = "json_array_is_homogenous_string" -> json_array_is_homogenous_string(j)

(***************************************************************************)
(* json_array_check_dimensions_f, jsonmtz.c 706-743.  dim + 1 is Tail(dim).*)
(***************************************************************************)
RECURSIVE check_dimensions_skip_inner(_, _, _, _)
check_dimensions_skip_inner(j, d, len, f) ==
    IF len = 0 /\ json_array_size(j) = 0 THEN 1
    ELSE IF len > 0 /\ json_array_size(j) # d[1] THEN 0
    ELSE IF len = 1 /\ json_array_size(j) = d[1] THEN inner_check_function(f, j)
    ELSE IF len > 0 THEN 1
    ELSE 0

RECURSIVE json_array_check_dimensions_f(_, _, _, _)
json_array_check_dimensions_f(j, d, len, f) ==
    IF len = 0 /\ json_array_size(j) = 0 THEN 1
    ELSE IF len > 0 /\ json_array_size(j) # d[1] THEN 0
    ELSE IF len > 1 /\ \E index \in 0..(json_array_size(j) - 1) :
                json_array_check_dimensions_f(json_array_get(j, index), Tail(d), len - 1, f) = 0
         THEN 0
    ELSE IF len = 1 /\ json_array_size(j) = d[1] THEN inner_check_function(f, j)
    ELSE IF len > 0 THEN 1
    ELSE 0

json_array_check_dimensions(j, d, len) ==
    json_array_check_dimensions_f(j, d, len, "json_truth")

(***************************************************************************)
(* C strings.  A char buffer is a sequence of codes; CStr is what a read   *)
(* of the buffer as a C string sees.                                       *)
(***************************************************************************)
Min(a, b) == IF a < b THEN a ELSE b

SeqsUpTo(S, n) == UNION {[1..k -> S] : k \in 0..n}

Prefix(s, n) == SubSeq(s, 1, Min(Len(s), n))

\* the characters of buf before its first NUL
CStr(buf) ==
    IF \E i \in 1..Len(buf) : buf[i] = 0
    THEN SubSeq(buf, 1, (CHOOSE i \in 1..Len(buf) :
                            buf[i] = 0 /\ \A k \in 1..(i - 1) : buf[k] # 0) - 1)
    ELSE buf

\* snprintf(dst, size, "%s", src): the string left in dst
snprintf_s(size, src) == Prefix(src, size - 1)

\* strncpy(dst, src, n): the n bytes written to dst (src stops at its NUL)
strncpy(src, n) == [i \in 1..n |-> IF i <= Len(CStr(src)) THEN src[i] ELSE 0]

\* json_string_value(j)[0]: the terminator when the string is empty
FirstChar(s) == IF Len(s) = 0 THEN 0 ELSE s[1]

(***************************************************************************)
(* The MTZ record.  cmtzlib (ccp4io/) is not part of src/; its allocators  *)
(* are modelled as returning zero-initialised structures (spec 4.4,        *)
(* "zero-initialized default").                                            *)
(***************************************************************************)
MTZRECORDLENGTH == 80
TitleSize == 71
NameSize == 65
ColSourceSize == 37
LabelSize == 31
TypeSize == 3
GrpTypeSize == 5
GonlabSize == 9
SpgNameSize == 21
PgNameSize == 11
NSymOps == 192
NOrder == 5
NCell == 6

\* code of the float bit pattern used as missing number flag
FNAN == 0 - 999

\* ccp4_ismnf(mtz, datum)
ccp4_ismnf(mtz, datum) == datum = FNAN

NoCol == <<>>

ZeroSym == [i \in 1..NSymOps |-> [j \in 1..4 |-> [k \in 1..4 |-> 0]]]

ZeroSymgrp ==
    [spcgrp |-> 0, spcgrpname |-> [i \in 1..SpgNameSize |-> 0],
     pgname |-> [i \in 1..PgNameSize |-> 0], spg_confidence |-> 0,
     nsym |-> 0, nsymp |-> 0, symtyp |-> 0, sym |-> ZeroSym]

MtzMallocSet ==
    [dname |-> <<>>, setid |-> 0, wavelength |-> 0, ncol |-> 0, col |-> <<>>]

MtzMallocXtal(nset) ==
    [xname |-> <<>>, pname |-> <<>>, xtalid |-> 0, cell |-> [i \in 1..NCell |-> 0],
     resmin |-> 0, resmax |-> 0, nset |-> nset, set |-> [j \in 1..nset |-> MtzMallocSet]]

\* MtzMalloc(nxtal, nset): nset is the int array nsets of makeMtz
MtzMalloc(nxtal, nset) ==
    [title |-> <<>>, histlines |-> 0, hist |-> <<>>,
     nxtal |-> nxtal, xtal |-> [i \in 1..nxtal |-> MtzMallocXtal(nset[i])],
     nref |-> 0, nref_filein |-> 0, refs_in_memory |-> 0,
     resmax_out |-> 0, resmin_out |-> 0,
     mtzsymm |-> ZeroSymgrp, batch |-> <<>>,
     order |-> [i \in 1..NOrder |-> NoCol],
     n_unknown_headers |-> 0, unknown_headers |-> <<>>]

\* MtzMallocCol(mtz, nref)
MtzMallocCol(mtz, nref) ==
    [label |-> <<>>, type |-> <<>>, active |-> 0, source |-> 0, min |-> 0, max |-> 0,
     colsource |-> <<>>, grpname |-> <<>>, grptype |-> <<>>, grpposn |-> 0,
     ref |-> [i \in 1..nref |-> 0]]

\* MtzMallocBatch()
MtzMallocBatch ==
    [title |-> <<>>, num |-> 0, nbsetid |-> 0, ncryst |-> 0, iortyp |-> 0, jumpax |-> 0,
     alambd |-> 0, cell |-> [i \in 1..NCell |-> 0],
     detlm |-> [i \in 1..2 |-> [j \in 1..2 |-> [k \in 1..2 |-> 0]]],
     gonlab |-> [i \in 1..3 |-> <<>>]]

\* MtzCallocHist(nhist): nhist zeroed lines of MTZRECORDLENGTH bytes
MtzCallocHist(nhist) == [i \in 1..(nhist * MTZRECORDLENGTH) |-> 0]

IsMtz(m) == "nxtal" \in DOMAIN m

(***************************************************************************)
(* Undefined behaviour.  Two reads of makeMtz have no defined value; the   *)
(* record ub carries what the build makes of them, and the caller draws it *)
(* from UBOutcomes.                                                        *)
(*   ub.fault     the undefined read faults and the process ends.          *)
(*   ub.garbage   otherwise, the int found by the read nrefl[0][0][0] at   *)
(*                1448 when crystal 0 has no dataset, so that nrefl[0] was *)
(*                never assigned.                                          *)
(* snprintf("%s", NULL) at 971 either faults or prints "(null)".           *)
(***************************************************************************)
Fault == [t |-> "fault"]
Uninit == [t |-> "uninit"]
NullText == <<40, 110, 117, 108, 108, 41>>

(***************************************************************************)
(* The "set the field if present and well-typed" idiom, e.g. 1066-1068.    *)
(***************************************************************************)
SetString(old, j, size) ==
    IF j # NULL /\ json_is_string(j) THEN snprintf_s(size, j.s) ELSE old

SetReal(old, j) == IF j # NULL /\ json_is_real(j) THEN json_real_value(j) ELSE old

SetInteger(old, j) ==
    IF j # NULL /\ json_is_integer(j) THEN json_integer_value(j) ELSE old

(***************************************************************************)
(* setMtzSymmetry, jsonmtz.c 1200-1250.                                    *)
(***************************************************************************)
SymmetryDimensions == <<NSymOps, 4, 4>>

setMtzSymmetry(mtzout, jsymm) ==
    LET jspcgrp == json_unpack_o(jsymm, "SpaceGroupNumber")
        jspcgrpname == json_unpack_o(jsymm, "SpaceGroupName")
        jpgname == json_unpack_o(jsymm, "PointGroupName")
        jspg_confidence == json_unpack_o(jsymm, "SpaceGroupConfidence")
        jnsym == json_unpack_o(jsymm, "NumberOfSymmetryOperations")
        jnsymp == json_unpack_o(jsymm, "NumberOfPrimitiveSymmetryOperations")
        jsym == json_unpack_o(jsymm, "SymmetryOperations")
        jsymtyp == json_unpack_o(jsymm, "LatticeType")
        old == mtzout.mtzsymm
    IN [mtzout EXCEPT !.mtzsymm =
          [spcgrp |-> SetInteger(old.spcgrp, jspcgrp),
           spcgrpname |-> IF jspcgrpname # NULL /\ json_is_string(jspcgrpname)
                          THEN strncpy(jspcgrpname.s, SpgNameSize) ELSE old.spcgrpname,
           pgname |-> IF jpgname # NULL /\ json_is_string(jpgname)
                      THEN strncpy(jpgname.s, PgNameSize) ELSE old.pgname,
           spg_confidence |-> IF jspg_confidence # NULL /\ json_is_string(jspg_confidence)
                              THEN FirstChar(jspg_confidence.s) ELSE old.spg_confidence,
           nsym |-> SetInteger(old.nsym, jnsym),
           nsymp |-> SetInteger(old.nsymp, jnsymp),
           sym |-> IF /\ jsym # NULL
                      /\ json_is_array(jsym)
                      /\ json_array_check_dimensions_f(jsym, SymmetryDimensions, 3,
                             "json_array_is_homogenous_real") = 1
                   THEN [i \in 1..NSymOps |-> [j \in 1..4 |-> [k \in 1..4 |->
                            json_real_value(jsym.a[i].a[j].a[k])]]]
                   ELSE old.sym,
           symtyp |-> IF jsymtyp # NULL /\ json_is_string(jsymtyp)
                      THEN FirstChar(jsymtyp.s) ELSE old.symtyp]]

(***************************************************************************)
(* setMtzBatches, jsonmtz.c 752-1041.  The chain of MTZBAT nodes is the    *)
(* sequence mtzout.batch.  Of the 28 scalar fields the model keeps title,  *)
(* num, nbsetid, ncryst, jumpax (integers), iortyp and alambd; of the 16   *)
(* array fields cell, detlm and gonlab.  The fields left out are copied by *)
(* the same statements as alambd, num and cell.                            *)
(***************************************************************************)
celldimensions == <<NCell>>
detlmdimensions == <<2, 2, 2>>

\* one pass of the loop body 770-1031 on a fresh MTZBAT; Fault when 971 faults
setMtzBatch(batchvalue, ub) ==
    LET jtitle == json_unpack_o(batchvalue, "Title")
        jnbsetid == json_unpack_o(batchvalue, "DatasetID")
        jncryst == json_unpack_o(batchvalue, "CrystalNumber")
        jnum == json_unpack_o(batchvalue, "BatchNumber")
        jalambd == json_unpack_o(batchvalue, "Wavelength")
        jiortyp == json_unpack_o(batchvalue, "OrientationBlockType")
        jjumpax == json_unpack_o(batchvalue, "JumpAxis")
        jcell == json_unpack_o(batchvalue, "CellDimensions")
        jdetlm == json_unpack_o(batchvalue, "DetectorLimits")
        jgonlab == json_unpack_o(batchvalue, "AxesLabels")
        b == MtzMallocBatch
        nullread == \E i \in 0..2 : ~json_is_string(json_array_get(jgonlab, i))
    IN IF nullread /\ ub.fault THEN Fault
       ELSE
        [title |-> SetString(b.title, jtitle, TitleSize),
         alambd |-> SetReal(b.alambd, jalambd),
         iortyp |-> IF jiortyp # NULL /\ json_is_real(jiortyp)
                    THEN json_integer_value(jiortyp) ELSE b.iortyp,
         jumpax |-> SetInteger(b.jumpax, jjumpax),
         nbsetid |-> SetInteger(b.nbsetid, jnbsetid),
         ncryst |-> SetInteger(b.ncryst, jncryst),
         num |-> SetInteger(b.num, jnum),
         cell |-> IF /\ jcell # NULL
                     /\ json_array_check_dimensions(jcell, celldimensions, 1) = 1
                     /\ json_array_is_homogenous_real(jcell) = 1
                  THEN [i \in 1..NCell |-> json_real_value(json_array_get(jcell, i - 1))]
                  ELSE b.cell,
         detlm |-> IF /\ jdetlm # NULL
                      /\ json_array_check_dimensions_f(jdetlm, detlmdimensions, 3,
                             "json_array_is_homogenous_real") = 1
                   THEN [i \in 1..2 |-> [j \in 1..2 |-> [k \in 1..2 |->
                           json_real_value(json_array_get(json_array_get(
                               json_array_get(jdetlm, i - 1), j - 1), k - 1))]]]
                   ELSE b.detlm,
         gonlab |-> [i \in 1..3 |->
                       LET e == json_array_get(jgonlab, i - 1)
                       IN IF json_is_string(e) THEN snprintf_s(GonlabSize, e.s)
                          ELSE snprintf_s(GonlabSize, NullText)]]

\* the loop 770-1039 from batchindex on; chain is the list from mtzout->batch,
\* currentBatch its last node.  The body fills currentBatch (setMtzBatch, never
\* Fault here) and links a fresh node while batchindex < linkbound (1033-1037)
RECURSIVE BatchLoop(_, _, _, _, _)
BatchLoop(chain, jbatches, batchindex, ub, linkbound) ==
    IF batchindex >= json_array_size(jbatches) THEN chain
    ELSE LET filled == [chain EXCEPT ![Len(chain)] =
                            setMtzBatch(jbatches.a[batchindex + 1], ub)]
         IN BatchLoop(IF batchindex < linkbound THEN Append(filled, MtzMallocBatch)
                      ELSE filled,
                      jbatches, batchindex + 1, ub, linkbound)

\* as setMtzBatches, a node linked after the last batch too
setMtzBatchesLinkAlways(mtzout, jbatches, ub) ==
    LET n == json_array_size(jbatches)
        first == IF n > 0 THEN <<MtzMallocBatch>> ELSE <<>>
    IN IF \E batchindex \in 1..n : setMtzBatch(jbatches.a[batchindex], ub) = Fault THEN Fault
       ELSE [mtzout EXCEPT !.batch = BatchLoop(first, jbatches, 0, ub, n)]

setMtzBatches(mtzout, jbatches, ub) ==
    LET n == json_array_size(jbatches)
        first == IF n > 0 THEN <<MtzMallocBatch>> ELSE <<>>
    IN IF \E batchindex \in 1..n : setMtzBatch(jbatches.a[batchindex], ub) = Fault THEN Fault
       ELSE [mtzout EXCEPT !.batch = BatchLoop(first, jbatches, 0, ub, n - 1)]

(***************************************************************************)
(* setMtzSet, jsonmtz.c 1051-1133.                                         *)
(***************************************************************************)
\* as CopyReflections, the token "NaN" restoring the missing number flag
CopyReflectionsNaN(ref, jref) ==
    [i \in 1..Len(ref) |->
        IF i > json_array_size(jref) THEN ref[i]
        ELSE IF json_array_get(jref, i - 1).t = "real"
        THEN json_real_value(json_array_get(jref, i - 1))
        ELSE IF json_array_get(jref, i - 1).t = "string" THEN FNAN
        ELSE ref[i]]

\* the reflection copy 1118-1127 into the ref array of a fresh column
CopyReflections(ref, jref) ==
    [i \in 1..Len(ref) |->
        IF /\ jref # NULL
           /\ json_is_array(jref)
           /\ i <= json_array_size(jref)
           /\ json_array_get(jref, i - 1).t = "real"
        THEN json_real_value(json_array_get(jref, i - 1))
        ELSE ref[i]]

\* the loop body 1076-1129: the column built from colvalue
setMtzCol(colvalue, mtzout) ==
    LET mtzcol == MtzMallocCol(mtzout, mtzout.nref)
        jcolsource == json_unpack_o(colvalue, "ColumnSource")
        jgrpname == json_unpack_o(colvalue, "GroupName")
        jlabel == json_unpack_o(colvalue, "Label")
        jtype == json_unpack_o(colvalue, "Type")
        jsource == json_unpack_o(colvalue, "ColumnID")
        jgrpposn == json_unpack_o(colvalue, "GroupPosition")
        jmin == json_unpack_o(colvalue, "MinValue")
        jmax == json_unpack_o(colvalue, "MaxValue")
        jgrptype == json_unpack_o(colvalue, "GroupType")
        jref == json_unpack_o(colvalue, "Data")
    IN [active |-> 1,
        colsource |-> SetString(mtzcol.colsource, jcolsource, ColSourceSize),
        grpname |-> SetString(mtzcol.grpname, jgrpname, LabelSize),
        label |-> SetString(mtzcol.label, jlabel, LabelSize),
        type |-> SetString(mtzcol.type, jtype, TypeSize),
        source |-> SetInteger(mtzcol.source, jsource),
        grpposn |-> SetInteger(mtzcol.grpposn, jgrpposn),
        min |-> SetReal(mtzcol.min, jmin),
        max |-> SetReal(mtzcol.max, jmax),
        grptype |-> SetString(mtzcol.grptype, jgrptype, GrpTypeSize),
        ref |-> CopyReflections(mtzcol.ref, jref)]

setMtzSet(set, jset, mtzout) ==
    LET jdname == json_unpack_o(jset, "DatasetName")
        jwavelength == json_unpack_o(jset, "Wavelength")
        jsetid == json_unpack_o(jset, "DatasetID")
        jcols == json_unpack_o(jset, "Columns")
    IN [dname |-> SetString(set.dname, jdname, NameSize),
        wavelength |-> SetReal(set.wavelength, jwavelength),
        setid |-> SetInteger(set.setid, jsetid),
        ncol |-> IF jcols # NULL /\ json_is_array(jcols)
                 THEN json_array_size(jcols) ELSE set.ncol,
        col |-> IF /\ jcols # NULL
                   /\ json_is_array(jcols)
                   /\ json_array_is_homogenous_object(jcols) = 1
                THEN [colindex \in 1..json_array_size(jcols) |->
                         setMtzCol(jcols.a[colindex], mtzout)]
                ELSE set.col]

(***************************************************************************)
(* setMtzXtals, jsonmtz.c 1142-1191.  The cell copy 1169-1175 has no       *)
(* length test: it writes cell[cellindex] for every element of the array.  *)
(* setMtzXtal keeps the writes that land in the 6 slots of cell; a write   *)
(* past them is undefined (CellOverrun): the run faults, or goes on with   *)
(* the record as setMtzXtal leaves it.                                     *)
(***************************************************************************)
CellOverrun(jcrystals) ==
    \E crystalindex \in 1..json_array_size(jcrystals) :
        LET jcell == json_unpack_o(jcrystals.a[crystalindex], "CellConstants")
        IN  /\ jcell # NULL
            /\ json_is_array(jcell)
            /\ json_array_is_homogenous_real(jcell) = 1
            /\ json_array_size(jcell) > NCell

setMtzXtal(xtal, crystalvalue, mtzout) ==
    LET jcell == json_unpack_o(crystalvalue, "CellConstants")
        jresmin == json_unpack_o(crystalvalue, "ResolutionMin")
        jresmax == json_unpack_o(crystalvalue, "ResolutionMax")
        jxname == json_unpack_o(crystalvalue, "CrystalName")
        jpname == json_unpack_o(crystalvalue, "ProjectName")
        jxtalid == json_unpack_o(crystalvalue, "CrystalID")
        jsets == json_unpack_o(crystalvalue, "Datasets")
    IN [xtal EXCEPT
          !.cell = IF /\ jcell # NULL
                      /\ json_is_array(jcell)
                      /\ json_array_is_homogenous_real(jcell) = 1
                   THEN [i \in 1..NCell |->
                           IF i <= json_array_size(jcell)
                           THEN json_real_value(json_array_get(jcell, i - 1))
                           ELSE xtal.cell[i]]
                   ELSE xtal.cell,
          !.resmin = SetReal(xtal.resmin, jresmin),
          !.resmax = SetReal(xtal.resmax, jresmax),
          !.xname = SetString(xtal.xname, jxname, NameSize),
          !.pname = SetString(xtal.pname, jpname, NameSize),
          !.xtalid = SetInteger(xtal.xtalid, jxtalid),
          !.set = IF /\ jsets # NULL
                     /\ json_is_array(jsets)
                     /\ json_array_is_homogenous_object(jsets) = 1
                  THEN [setindex \in 1..Len(xtal.set) |->
                          IF setindex <= json_array_size(jsets)
                          THEN setMtzSet(xtal.set[setindex], jsets.a[setindex], mtzout)
                          ELSE xtal.set[setindex]]
                  ELSE xtal.set]

setMtzXtals(mtzout, jcrystals) ==
    [mtzout EXCEPT !.xtal =
        [crystalindex \in 1..Len(mtzout.xtal) |->
            IF crystalindex <= json_array_size(jcrystals)
            THEN setMtzXtal(mtzout.xtal[crystalindex], jcrystals.a[crystalindex], mtzout)
            ELSE mtzout.xtal[crystalindex]]]

(***************************************************************************)
(* findColumnBySource, jsonmtz.c 1259-1275.  A column pointer is the       *)
(* triple of its indices; NoCol is the null pointer.                       *)
(***************************************************************************)
Columns(mtz) ==
    UNION {UNION {{<<i, j, k>> : k \in 1..mtz.xtal[i].set[j].ncol} :
                    j \in 1..mtz.xtal[i].nset} : i \in 1..mtz.nxtal}

\* r is visited before q by the three nested loops
VisitedBefore(r, q) ==
    \/ r[1] < q[1]
    \/ r[1] = q[1] /\ r[2] < q[2]
    \/ r[1] = q[1] /\ r[2] = q[2] /\ r[3] < q[3]

ColumnAt(mtz, r) == mtz.xtal[r[1]].set[r[2]].col[r[3]]

\* as findColumnBySource, the loops not returning at the first match
findLastColumnBySource(mtz, source) ==
    LET hits == {r \in Columns(mtz) : ColumnAt(mtz, r).source = source}
    IN IF hits = {} THEN NoCol
       ELSE CHOOSE r \in hits : \A q \in hits \ {r} : VisitedBefore(q, r)

findColumnBySource(mtz, source) ==
    LET hits == {r \in Columns(mtz) : ColumnAt(mtz, r).source = source}
    IN IF hits = {} THEN NoCol
       ELSE CHOOSE r \in hits : \A q \in hits \ {r} : VisitedBefore(r, q)

(***************************************************************************)
(* makeMtz, jsonmtz.c 1283-1505.                                           *)
(***************************************************************************)
\* the keys of the format "{s:o, s:o, s:o, s:o, s:o, s:o, s?o}" at 1304-1312
TopKeys == <<"Title", "Crystals", "History", "Symmetry", "Batches", "SortOrder",
             "UnknownHeaders">>

NRequiredKeys == 6

\* json_unpack walks the format left to right and stops at the first required
\* key the object lacks; the targets of the keys behind it keep their initial
\* value init
UnpackTop(jsn, idx, init) ==
    IF /\ json_is_object(jsn)
       /\ \A m \in 1..Min(idx, NRequiredKeys) : TopKeys[m] \in DOMAIN jsn.o
       /\ TopKeys[idx] \in DOMAIN jsn.o
    THEN jsn.o[TopKeys[idx]]
    ELSE init

\* the loop 1384-1402 from colindex on; st = [structure_error, refl]
RECURSIVE CountColumns(_, _, _)
CountColumns(jcols, colindex, st) ==
    IF colindex >= json_array_size(jcols) THEN st
    ELSE LET dat == json_unpack_o(json_array_get(jcols, colindex), "Data")
             err == st.structure_error \/ ~(dat # NULL /\ json_is_array(dat))
         IN CountColumns(jcols, colindex + 1,
                [structure_error |-> err,
                 refl |-> IF ~err
                          THEN [st.refl EXCEPT ![colindex + 1] = json_array_size(dat)]
                          ELSE st.refl])

\* the test at 1368
ColumnsAccepted(jcols) ==
    /\ jcols # NULL
    /\ json_is_array(jcols)
    /\ json_array_size(jcols) # 0
    /\ json_array_is_homogenous_object(jcols) = 1

\* the loop 1359-1409 from setindex on; st = [structure_error, ncol, nreflections]
RECURSIVE CountSets(_, _, _)
CountSets(jsets, setindex, st) ==
    IF setindex >= json_array_size(jsets) THEN st
    ELSE LET jcols == json_unpack_o(json_array_get(jsets, setindex), "Columns")
             err == st.structure_error \/ ~ColumnsAccepted(jcols)
             cols == IF err THEN [structure_error |-> TRUE, refl |-> <<>>]
                     ELSE CountColumns(jcols, 0,
                            [structure_error |-> FALSE,
                             refl |-> [k \in 1..json_array_size(jcols) |-> Uninit]])
         IN CountSets(jsets, setindex + 1,
                [structure_error |-> cols.structure_error,
                 ncol |-> IF ~err
                          THEN [st.ncol EXCEPT ![setindex + 1] = json_array_size(jcols)]
                          ELSE st.ncol,
                 nreflections |-> IF ~err
                                  THEN [st.nreflections EXCEPT ![setindex + 1] = cols.refl]
                                  ELSE st.nreflections])

\* the test at 1342: the size of Datasets is not tested
DatasetsAccepted(jsets) ==
    /\ jsets # NULL
    /\ json_is_array(jsets)
    /\ json_array_is_homogenous_object(jsets) = 1

\* the loop 1331-1411 from crystalindex on;
\* st = [structure_error, nsets, ncols, nrefl].  ncols[crystalindex] and
\* nrefl[crystalindex] are assigned inside the dataset loop (1407-1408), so
\* they stay uninitialised for a crystal whose Datasets is empty
RECURSIVE CountCrystals(_, _, _)
CountCrystals(jcrystals, crystalindex, st) ==
    IF crystalindex >= json_array_size(jcrystals) THEN st
    ELSE LET jsets == json_unpack_o(json_array_get(jcrystals, crystalindex), "Datasets")
             err == st.structure_error \/ ~DatasetsAccepted(jsets)
             n == json_array_size(jsets)
             sets == IF err THEN [structure_error |-> TRUE, ncol |-> <<>>,
                                  nreflections |-> <<>>]
                     ELSE CountSets(jsets, 0,
                            [structure_error |-> FALSE,
                             ncol |-> [j \in 1..n |-> Uninit],
                             nreflections |-> [j \in 1..n |-> Uninit]])
             assigned == ~err /\ n > 0
         IN CountCrystals(jcrystals, crystalindex + 1,
                [structure_error |-> sets.structure_error,
                 nsets |-> IF ~err THEN [st.nsets EXCEPT ![crystalindex + 1] = n]
                           ELSE st.nsets,
                 ncols |-> IF assigned
                           THEN [st.ncols EXCEPT ![crystalindex + 1] = sets.ncol]
                           ELSE st.ncols,
                 nrefl |-> IF assigned
                           THEN [st.nrefl EXCEPT ![crystalindex + 1] = sets.nreflections]
                           ELSE st.nrefl])

\* the test at 1314
CrystalsAccepted(jcrystals) ==
    /\ jcrystals # NULL
    /\ json_is_array(jcrystals)
    /\ json_array_size(jcrystals) # 0
    /\ json_array_is_homogenous_object(jcrystals) = 1

\* the count pass 1314-1411
CountPass(jcrystals) ==
    IF ~CrystalsAccepted(jcrystals)
    THEN [structure_error |-> TRUE, nsets |-> <<>>, ncols |-> <<>>, nrefl |-> <<>>]
    ELSE LET n == json_array_size(jcrystals)
         IN CountCrystals(jcrystals, 0,
                [structure_error |-> FALSE,
                 nsets |-> [i \in 1..n |-> Uninit],
                 ncols |-> [i \in 1..n |-> Uninit],
                 nrefl |-> [i \in 1..n |-> Uninit]])

\* the index triples the loops 1417-1436 visit, in their order
RECURSIVE CountedFrom(_, _, _, _)
CountedFrom(cnt, i, j, k) ==
    IF i > Len(cnt.nsets) THEN <<>>
    ELSE IF j > cnt.nsets[i] THEN CountedFrom(cnt, i + 1, 1, 1)
    ELSE IF k > cnt.ncols[i][j] THEN CountedFrom(cnt, i, j + 1, 1)
    ELSE <<cnt.nrefl[i][j][k]>> \o CountedFrom(cnt, i, j, k + 1)

\* as InhomogenousFrom, the test at 1427 written nref < lens[p]
RECURSIVE InhomogenousFromLonger(_, _, _)
InhomogenousFromLonger(lens, p, nref) ==
    IF p > Len(lens) THEN FALSE
    ELSE IF nref < 0 THEN InhomogenousFromLonger(lens, p + 1, lens[p])
    ELSE IF nref < lens[p] THEN TRUE
    ELSE InhomogenousFromLonger(lens, p + 1, nref)

\* the body 1423-1433 run over the lengths lens from position p on, nref being
\* the value of the variable nref; TRUE when it reaches the return at 1432
RECURSIVE InhomogenousFrom(_, _, _)
InhomogenousFrom(lens, p, nref) ==
    IF p > Len(lens) THEN FALSE
    ELSE IF nref < 0 THEN InhomogenousFrom(lens, p + 1, lens[p])
    ELSE IF nref # lens[p] THEN TRUE
    ELSE InhomogenousFrom(lens, p + 1, nref)

InhomogenousColumns(cnt) == InhomogenousFrom(CountedFrom(cnt, 1, 1, 1), 1, 0 - 1)

\* the lines of a json array of strings copied by strncpy(.., MTZRECORDLENGTH)
\* into consecutive records of a zeroed buffer, 1463-1466 and 1492-1495
CopyLines(jlines) ==
    [p \in 1..(json_array_size(jlines) * MTZRECORDLENGTH) |->
        LET line == jlines.a[((p - 1) \div MTZRECORDLENGTH) + 1].s
            c == ((p - 1) % MTZRECORDLENGTH) + 1
        IN IF c <= Len(line) THEN line[c] ELSE 0]

\* 1479: the test that guards the loop over SortOrder
SortOrderAccepted(jsort) ==
    jsort # NULL /\ json_is_array(jsort) /\ json_array_is_homogenous_integer(jsort) = 1

\* 1481-1484: the values of orderindex at which order[orderindex] is assigned,
\* one for every element of the list; the loop has no test against the 5 slots
SortOrderStores(jsort) ==
    IF SortOrderAccepted(jsort) THEN 0..(json_array_size(jsort) - 1) ELSE {}

\* a store past order[4] is undefined: the run faults, or goes on with the
\* record as SetSortOrder leaves it
OrderOverrun(jsort) == \E orderindex \in SortOrderStores(jsort) : orderindex >= NOrder

\* 1479-1485: order[orderindex] for every element; the model keeps the writes
\* that land in the NOrder slots of order
SetSortOrder(mtzout, jsort) ==
    IF SortOrderAccepted(jsort)
    THEN [mtzout EXCEPT !.order =
            [i \in 1..NOrder |->
                IF (i - 1) \in SortOrderStores(jsort)
                THEN findColumnBySource(mtzout, json_integer_value(json_array_get(jsort, i - 1)))
                ELSE mtzout.order[i]]]
    ELSE mtzout

\* as SetTitle, the string copied whole
SetTitleUnbounded(mtzout, jtitle) ==
    [mtzout EXCEPT !.title = IF jtitle # NULL /\ json_is_string(jtitle) THEN jtitle.s ELSE @]

\* 1455: snprintf(mtzout->title, 71, "%s", ..) when jtitle is a string
SetTitle(mtzout, jtitle) ==
    [mtzout EXCEPT !.title = SetString(@, jtitle, TitleSize)]

\* 1454-1496 on the allocated record m1 (nref and the misc properties set)
Populate(m1, jtitle, jhistory, jsymm, jbatches, jcrystals, jsort, junknown_headers, ub) ==
    LET m2 == SetTitle(m1, jtitle)
        m3 == IF /\ jhistory # NULL
                 /\ json_is_array(jhistory)
                 /\ json_array_is_homogenous_string(jhistory) = 1
              THEN [m2 EXCEPT !.histlines = json_array_size(jhistory),
                              !.hist = CopyLines(jhistory)]
              ELSE m2
        m4 == IF jsymm # NULL /\ json_is_object(jsymm) THEN setMtzSymmetry(m3, jsymm) ELSE m3
        m5 == IF /\ jbatches # NULL
                 /\ json_is_array(jbatches)
                 /\ json_array_is_homogenous_object(jbatches) = 1
              THEN setMtzBatches(m4, jbatches, ub)
              ELSE m4
    IN IF m5 = Fault THEN Fault
       ELSE IF /\ jcrystals # NULL
               /\ json_is_array(jcrystals)
               /\ json_array_is_homogenous_object(jcrystals) = 1
               /\ CellOverrun(jcrystals)
               /\ ub.fault
       THEN Fault
       ELSE LET m6 == IF /\ jcrystals # NULL
                         /\ json_is_array(jcrystals)
                         /\ json_array_is_homogenous_object(jcrystals) = 1
                      THEN setMtzXtals(m5, jcrystals)
                      ELSE m5
                m7 == SetSortOrder(m6, jsort)
            IN IF OrderOverrun(jsort) /\ ub.fault THEN Fault
               ELSE IF /\ junknown_headers # NULL
                  /\ json_is_array(junknown_headers)
                  /\ json_array_is_homogenous_string(junknown_headers) = 1
               THEN [m7 EXCEPT !.n_unknown_headers = json_array_size(junknown_headers),
                               !.unknown_headers = CopyLines(junknown_headers)]
               ELSE m7

\* The result is NULL (structure error), a record, or Fault when an undefined
\* read faults.
makeMtz(jsn, ub) ==
    LET jtitle == UnpackTop(jsn, 1, NULL)
        jcrystals == UnpackTop(jsn, 2, NULL)
        jhistory == UnpackTop(jsn, 3, JArr(<<>>))
        jsymm == UnpackTop(jsn, 4, NULL)
        jbatches == UnpackTop(jsn, 5, NULL)
        jsort == UnpackTop(jsn, 6, NULL)
        junknown_headers == UnpackTop(jsn, 7, JArr(<<>>))
        cnt == CountPass(jcrystals)
    IN IF cnt.structure_error THEN NULL
       ELSE IF InhomogenousColumns(cnt) THEN NULL
       ELSE IF cnt.nsets[1] = 0 /\ ub.fault THEN Fault
       ELSE LET ncryst == json_array_size(jcrystals)
                m0 == MtzMalloc(ncryst, cnt.nsets)
                m1 == [m0 EXCEPT
                         !.nref = IF cnt.nsets[1] = 0 THEN ub.garbage
                                  ELSE cnt.nrefl[1][1][1],
                         !.nxtal = ncryst,
                         !.resmax_out = 0,
                         !.resmin_out = 999,
                         !.refs_in_memory = 1]
            IN Populate(m1, jtitle, jhistory, jsymm, jbatches, jcrystals, jsort,
                        junknown_headers, ub)

(***************************************************************************)
(* The allocations and releases of makeMtz, in program order.  An event    *)
(* names the operation and the block: nsets, ncols and nrefl are the       *)
(* per-crystal arrays (1326-1328), ncol and nreflections the arrays of     *)
(* crystal i (1356-1357), refl the array of dataset j of crystal i (1379). *)
(***************************************************************************)
Ev(op, blk, i, j) == [op |-> op, blk |-> blk, i |-> i, j |-> j]

Malloc(blk, i, j) == Ev("malloc", blk, i, j)

Free(blk) == Ev("free", blk, 0, 0)

Call(f) == Ev("call", f, 0, 0)

Return(f) == Ev("return", f, 0, 0)

\* the allocations of the loop 1359-1409 from setindex on, err being the value
\* of structure_error
RECURSIVE SetsTrace(_, _, _, _)
SetsTrace(jsets, crystalindex, setindex, err) ==
    IF setindex >= json_array_size(jsets) THEN <<>>
    ELSE LET jcols == json_unpack_o(json_array_get(jsets, setindex), "Columns")
             skip == err \/ ~ColumnsAccepted(jcols)
             after == IF skip THEN TRUE
                      ELSE CountColumns(jcols, 0,
                              [structure_error |-> FALSE,
                               refl |-> [k \in 1..json_array_size(jcols) |-> Uninit]]
                           ).structure_error
         IN (IF skip THEN <<>> ELSE <<Malloc("refl", crystalindex, setindex)>>)
            \o SetsTrace(jsets, crystalindex, setindex + 1, after)

\* the allocations of the loop 1331-1411 from crystalindex on
RECURSIVE CrystalsTrace(_, _, _)
CrystalsTrace(jcrystals, crystalindex, err) ==
    IF crystalindex >= json_array_size(jcrystals) THEN <<>>
    ELSE LET jsets == json_unpack_o(json_array_get(jcrystals, crystalindex), "Datasets")
             skip == err \/ ~DatasetsAccepted(jsets)
             n == json_array_size(jsets)
             after == IF skip THEN TRUE
                      ELSE CountSets(jsets, 0,
                              [structure_error |-> FALSE,
                               ncol |-> [j \in 1..n |-> Uninit],
                               nreflections |-> [j \in 1..n |-> Uninit]]).structure_error
         IN (IF skip THEN <<>>
             ELSE <<Malloc("ncol", crystalindex, 0), Malloc("nreflections", crystalindex, 0)>>
                  \o SetsTrace(jsets, crystalindex, 0, FALSE))
            \o CrystalsTrace(jcrystals, crystalindex + 1, after)

\* free(nsets); free(ncols); free(nrefl): 1429-1431, 1441-1443 and 1499-1501
Release == <<Free("nsets"), Free("ncols"), Free("nrefl")>>

\* as makeMtzTrace, the record allocated before the lengths are compared
makeMtzTraceEager(jsn, faulted) ==
    LET jcrystals == UnpackTop(jsn, 2, NULL)
        cnt == CountPass(jcrystals)
    IN  <<Call("makeMtz")>> \o
        (IF ~CrystalsAccepted(jcrystals) THEN <<Return("makeMtz")>>
         ELSE <<Malloc("nsets", 0, 0), Malloc("ncols", 0, 0), Malloc("nrefl", 0, 0)>>
              \o CrystalsTrace(jcrystals, 0, FALSE)
              \o (IF cnt.structure_error THEN Release \o <<Return("makeMtz")>>
                  ELSE IF InhomogenousColumns(cnt)
                  THEN <<Call("MtzMalloc")>> \o Release \o <<Return("makeMtz")>>
                  ELSE IF faulted THEN <<Call("MtzMalloc")>>
                  ELSE <<Call("MtzMalloc")>> \o Release \o <<Return("makeMtz")>>))

\* the events of a call makeMtz(jsn); faulted: the run stopped at an undefined
\* access while it populated the record (after 1438, before 1499)
makeMtzTrace(jsn, faulted) ==
    LET jcrystals == UnpackTop(jsn, 2, NULL)
        cnt == CountPass(jcrystals)
    IN  <<Call("makeMtz")>> \o
        (IF ~CrystalsAccepted(jcrystals) THEN <<Return("makeMtz")>>
         ELSE <<Malloc("nsets", 0, 0), Malloc("ncols", 0, 0), Malloc("nrefl", 0, 0)>>
              \o CrystalsTrace(jcrystals, 0, FALSE)
              \o (IF cnt.structure_error THEN Release \o <<Return("makeMtz")>>
                  ELSE IF InhomogenousColumns(cnt) THEN Release \o <<Return("makeMtz")>>
                  ELSE IF faulted THEN <<Call("MtzMalloc")>>
                  ELSE <<Call("MtzMalloc")>> \o Release \o <<Return("makeMtz")>>))

(***************************************************************************)
(* stringtrimn, jsonmtz.c 187-203, on the len bytes str.  The loop at 195  *)
(* runs below the buffer when the copied string is empty or all spaces.    *)
(***************************************************************************)
TrimUnderflow(str) == \A i \in 1..Len(CStr(str)) : CStr(str)[i] = 32

stringtrimn(str, len) ==
    LET start == strncpy(str, len)
        s == CStr(start)
    IN IF \A i \in 1..Len(s) : s[i] = 32 THEN <<>>
       ELSE SubSeq(s, 1, CHOOSE e \in 1..Len(s) :
                            s[e] # 32 /\ \A i \in (e + 1)..Len(s) : s[i] = 32)

\* the i-th record (0-based) of a buffer of MTZRECORDLENGTH-byte records
RecordLine(buf, i) == SubSeq(buf, i * MTZRECORDLENGTH + 1, (i + 1) * MTZRECORDLENGTH)

(***************************************************************************)
(* readMtzSymmetry, jsonmtz.c 291-323.                                     *)
(***************************************************************************)
readMtzSymmetry(sym) ==
    JObj([SpaceGroupNumber |-> JInt(sym.spcgrp),
          SpaceGroupName |-> JStr(CStr(sym.spcgrpname)),
          PointGroupName |-> JStr(CStr(sym.pgname)),
          SpaceGroupConfidence |-> JStr(<<sym.spg_confidence>>),
          NumberOfSymmetryOperations |-> JInt(sym.nsym),
          NumberOfPrimitiveSymmetryOperations |-> JInt(sym.nsymp),
          SymmetryOperations |->
              JArr([i \in 1..NSymOps |-> JArr([j \in 1..4 |-> JArr([k \in 1..4 |->
                       JReal(sym.sym[i][j][k])])])]),
          LatticeType |-> JStr(<<sym.symtyp>>)])

(***************************************************************************)
(* readMtzBatch, jsonmtz.c 331-481, for the fields the model keeps.        *)
(***************************************************************************)
readMtzBatch(batch) ==
    JObj([Title |-> JStr(batch.title),
          DatasetID |-> JInt(batch.nbsetid),
          CrystalNumber |-> JInt(batch.ncryst),
          BatchNumber |-> JInt(batch.num),
          Wavelength |-> JReal(batch.alambd),
          CellDimensions |-> JArr([i \in 1..NCell |-> JReal(batch.cell[i])]),
          DetectorLimits |->
              JArr([i \in 1..2 |-> JArr([j \in 1..2 |-> JArr([k \in 1..2 |->
                       JReal(batch.detlm[i][j][k])])])]),
          AxesLabels |-> JArr([i \in 1..3 |-> JStr(batch.gonlab[i])]),
          OrientationBlockType |-> JInt(batch.iortyp),
          JumpAxis |-> JInt(batch.jumpax)])

(***************************************************************************)
(* readMtzSet, jsonmtz.c 531-581.                                          *)
(***************************************************************************)
NaNToken == <<78, 97, 78>>

\* as readReflections, without the test ccp4_ismnf
readReflectionsNoFlag(col, nref, mtzin) == JArr([i \in 1..nref |-> JReal(col.ref[i])])

\* the loop 548-561 over the column col
readReflections(col, nref, mtzin) ==
    JArr([i \in 1..nref |->
            IF ccp4_ismnf(mtzin, col.ref[i]) THEN JStr(NaNToken) ELSE JReal(col.ref[i])])

readMtzCol(col, nref, mtzin) ==
    JObj([ColumnSource |-> JStr(col.colsource),
          GroupName |-> JStr(col.grpname),
          GroupPosition |-> JInt(col.grpposn),
          GroupType |-> JStr(col.grptype),
          Label |-> JStr(col.label),
          MaxValue |-> JReal(col.max),
          MinValue |-> JReal(col.min),
          ColumnID |-> JInt(col.source),
          Type |-> JStr(col.type),
          Data |-> readReflections(col, nref, mtzin)])

readMtzSet(set, nref, mtzin) ==
    JObj([DatasetName |-> JStr(set.dname),
          DatasetID |-> JInt(set.setid),
          Wavelength |-> JReal(set.wavelength),
          Columns |-> JArr([i \in 1..set.ncol |-> readMtzCol(set.col[i], nref, mtzin)])])

(***************************************************************************)
(* readMtzXtal, jsonmtz.c 491-521.                                         *)
(***************************************************************************)
readMtzXtal(xtal, nref, mtzin) ==
    JObj([CrystalName |-> JStr(xtal.xname),
          CrystalID |-> JInt(xtal.xtalid),
          CellConstants |-> JArr([i \in 1..NCell |-> JReal(xtal.cell[i])]),
          ProjectName |-> JStr(xtal.pname),
          ResolutionMax |-> JReal(xtal.resmax),
          ResolutionMin |-> JReal(xtal.resmin),
          Datasets |-> JArr([i \in 1..xtal.nset |-> readMtzSet(xtal.set[i], nref, mtzin)])])

(***************************************************************************)
(* readMtz, jsonmtz.c 211-283.  Fault when stringtrimn runs below its      *)
(* buffer and the read faults.                                             *)
(***************************************************************************)
\* 253-259: the source ids of the non-null entries of order, in slot order
RECURSIVE readSortOrder(_, _)
readSortOrder(mtzin, i) ==
    IF i > NOrder THEN <<>>
    ELSE IF mtzin.order[i] # NoCol
    THEN <<JInt(ColumnAt(mtzin, mtzin.order[i]).source)>> \o readSortOrder(mtzin, i + 1)
    ELSE readSortOrder(mtzin, i + 1)

readMtz(mtzin, ub) ==
    LET nunknown == IF mtzin.n_unknown_headers # 0
                    THEN mtzin.n_unknown_headers \div 2 ELSE 0
        underflow ==
            \/ \E i \in 0..(mtzin.histlines - 1) : TrimUnderflow(RecordLine(mtzin.hist, i))
            \/ \E i \in 0..(nunknown - 1) :
                   TrimUnderflow(RecordLine(mtzin.unknown_headers, i))
    IN IF underflow /\ ub.fault THEN Fault
       ELSE
        JObj([Title |-> JStr(CStr(mtzin.title)),
              History |-> JArr([i \in 1..mtzin.histlines |->
                  JStr(stringtrimn(RecordLine(mtzin.hist, i - 1), MTZRECORDLENGTH))]),
              Crystals |-> JArr([i \in 1..mtzin.nxtal |->
                  readMtzXtal(mtzin.xtal[i], mtzin.nref_filein, mtzin)]),
              Symmetry |-> readMtzSymmetry(mtzin.mtzsymm),
              Batches |-> JArr([i \in 1..Len(mtzin.batch) |-> readMtzBatch(mtzin.batch[i])]),
              SortOrder |-> JArr(readSortOrder(mtzin, 1)),
              UnknownHeaders |-> JArr([i \in 1..nunknown |->
                  JStr(stringtrimn(RecordLine(mtzin.unknown_headers, i - 1),
                                   MTZRECORDLENGTH))])])

(***************************************************************************)
(* Input trees.  A hierarchy is written as a word over CRYSTAL ("X": a new *)
(* crystal), DATASET ("S": a new dataset in the last crystal) and the      *)
(* column tokens (a new column in the last dataset, with a Data array of   *)
(* the token's length).                                                    *)
(***************************************************************************)
MaxTokens == 6
MaxRef == 2

ColumnTokens == {"c0", "c1", "cN"}
Tokens == {"X", "S"} \cup ColumnTokens

DataLength(tk) == CASE tk = "c0" -> 0 [] tk = "c1" -> 1 [] tk = "cN" -> MaxRef

WellFormedWord(w) ==
    /\ Len(w) > 0 => w[1] = "X"
    /\ \A p \in 1..Len(w) :
          w[p] \in ColumnTokens => p > 1 /\ w[p - 1] \in ColumnTokens \cup {"S"}

Words == {w \in SeqsUpTo(Tokens, MaxTokens) : WellFormedWord(w)}

\* the hierarchy of w: crystals, each a sequence of datasets, each a sequence
\* of Data lengths
RECURSIVE Hierarchy(_, _, _)
Hierarchy(w, p, h) ==
    IF p > Len(w) THEN h
    ELSE IF w[p] = "X" THEN Hierarchy(w, p + 1, Append(h, <<>>))
    ELSE IF w[p] = "S"
    THEN Hierarchy(w, p + 1, [h EXCEPT ![Len(h)] = Append(@, <<>>)])
    ELSE Hierarchy(w, p + 1,
            [h EXCEPT ![Len(h)] = [@ EXCEPT ![Len(@)] = Append(@, DataLength(w[p]))]])

\* text made of n letters
Text(n) == [i \in 1..n |-> 97 + (i % 26)]

\* a line of MTZRECORDLENGTH bytes: n letters, then spaces
PaddedLine(n) == [i \in 1..MTZRECORDLENGTH |-> IF i <= n THEN 97 + (i % 26) ELSE 32]

\* column k of dataset j of crystal i, its Data being the array data
TreeColumn(i, j, k, data) ==
    JObj([ColumnSource |-> JStr(Text(3)), GroupName |-> JStr(Text(2)),
          GroupPosition |-> JInt(k), GroupType |-> JStr(Text(1)),
          Label |-> JStr(Text(k)), MaxValue |-> JReal(9), MinValue |-> JReal(1),
          ColumnID |-> JInt(100 * i + 10 * j + k), Type |-> JStr(Text(1)),
          Data |-> data])

RealData(k, n) == JArr([p \in 1..n |-> JReal(10 * k + p)])

TreeDataset(i, j, lens) ==
    JObj([DatasetName |-> JStr(Text(j)), DatasetID |-> JInt(j), Wavelength |-> JReal(2),
          Columns |-> JArr([k \in 1..Len(lens) |-> TreeColumn(i, j, k, RealData(k, lens[k]))])])

TreeCrystal(i, sets) ==
    JObj([CrystalName |-> JStr(Text(i)), CrystalID |-> JInt(i),
          CellConstants |-> JArr([c \in 1..NCell |-> JReal(c)]),
          ProjectName |-> JStr(Text(2)), ResolutionMax |-> JReal(3),
          ResolutionMin |-> JReal(1),
          Datasets |-> JArr([j \in 1..Len(sets) |-> TreeDataset(i, j, sets[j])])])

TreeCrystals(h) == JArr([i \in 1..Len(h) |-> TreeCrystal(i, h[i])])

TreeBatch(b) ==
    JObj([Title |-> JStr(Text(b)), DatasetID |-> JInt(1), CrystalNumber |-> JInt(1),
          BatchNumber |-> JInt(b), Wavelength |-> JReal(2),
          CellDimensions |-> JArr([c \in 1..NCell |-> JReal(c)]),
          DetectorLimits |-> JArr([i \in 1..2 |-> JArr([j \in 1..2 |->
                                JArr([k \in 1..2 |-> JReal(4 * i + 2 * j + k)])])]),
          AxesLabels |-> JArr([i \in 1..3 |-> JStr(Text(i))]),
          OrientationBlockType |-> JInt(1), JumpAxis |-> JInt(2)])

TreeSymmetry ==
    JObj([SpaceGroupNumber |-> JInt(19), SpaceGroupName |-> JStr(Text(4)),
          PointGroupName |-> JStr(Text(3)), SpaceGroupConfidence |-> JStr(Text(1)),
          NumberOfSymmetryOperations |-> JInt(4),
          NumberOfPrimitiveSymmetryOperations |-> JInt(4),
          LatticeType |-> JStr(Text(1))])

\* a tree with every top-level key, over the hierarchy h
Tree(h, title, sort) ==
    JObj([Title |-> title,
          History |-> JArr(<<JStr(Text(5)), JStr(Text(7))>>),
          Crystals |-> TreeCrystals(h),
          Symmetry |-> TreeSymmetry,
          Batches |-> JArr(<<TreeBatch(1)>>),
          SortOrder |-> sort,
          UnknownHeaders |-> JArr(<<JStr(Text(4))>>)])

\* the trees of the words: every hierarchy within the bounds
HierarchyTrees == {Tree(Hierarchy(w, 1, <<>>), JStr(Text(3)), JArr(<<>>)) : w \in Words}

(***************************************************************************)
(* Defects: a place of a tree replaced by another value, or a key removed. *)
(* A place is a path of object keys [k |-> key] and 1-based array          *)
(* positions [i |-> position].                                             *)
(***************************************************************************)
K(key) == [k |-> key]
I(pos) == [i |-> pos]

RECURSIVE PutAt(_, _, _)
PutAt(j, path, v) ==
    IF path = <<>> THEN v
    ELSE IF "k" \in DOMAIN path[1]
    THEN JObj([x \in DOMAIN j.o \cup {path[1].k} |->
                 IF x = path[1].k
                 THEN PutAt(json_object_get(j, x), Tail(path), v)
                 ELSE j.o[x]])
    ELSE JArr([j.a EXCEPT ![path[1].i] = PutAt(@, Tail(path), v)])

\* the object at path loses its key
RECURSIVE DropAt(_, _, _)
DropAt(j, path, key) ==
    IF path = <<>> THEN JObj([x \in DOMAIN j.o \ {key} |-> j.o[x]])
    ELSE IF "k" \in DOMAIN path[1]
    THEN JObj([j.o EXCEPT ![path[1].k] = DropAt(@, Tail(path), key)])
    ELSE JArr([j.a EXCEPT ![path[1].i] = DropAt(@, Tail(path), key)])

MaxTitle == 73
MaxSort == 2

\* two crystals: the first with one dataset of two columns, the second with one
\* dataset of one column, every Data of length MaxRef
BaseHierarchy == << << <<MaxRef, MaxRef>> >>, << <<MaxRef>> >> >>

BaseTree == Tree(BaseHierarchy, JStr(Text(3)), JArr(<<JInt(111), JInt(211)>>))

WrongValues == {JInt(1), JStr(NaNToken), JNull, JArr(<<JInt(1)>>), JObj(<<>>)}

\* the places the count pass looks at
StructurePlaces ==
    {<<K("Crystals")>>}
    \cup {<<K("Crystals"), I(c)>> : c \in 1..2}
    \cup {<<K("Crystals"), I(c), K("Datasets")>> : c \in 1..2}
    \cup {<<K("Crystals"), I(c), K("Datasets"), I(1)>> : c \in 1..2}
    \cup {<<K("Crystals"), I(c), K("Datasets"), I(1), K("Columns")>> : c \in 1..2}
    \cup {<<K("Crystals"), I(c), K("Datasets"), I(1), K("Columns"), I(1)>> : c \in 1..2}
    \cup {<<K("Crystals"), I(c), K("Datasets"), I(1), K("Columns"), I(1), K("Data")>> :
            c \in 1..2}

Parent(path) == SubSeq(path, 1, Len(path) - 1)

StructureDefectTrees ==
    {PutAt(BaseTree, pl, v) : pl \in StructurePlaces, v \in WrongValues}
    \cup {DropAt(BaseTree, Parent(pl), pl[Len(pl)].k) :
            pl \in {q \in StructurePlaces : "k" \in DOMAIN q[Len(q)]}}
    \cup {JInt(1), JArr(<<>>)}

\* every top-level key but Crystals is right, absent, or of the wrong type
OptionalTopKeys == {"Title", "History", "Symmetry", "Batches", "SortOrder", "UnknownHeaders"}

WrongTop(key) ==
    CASE key = "Title" -> JInt(1)
      [] key = "History" -> JArr(<<JStr(Text(5)), JInt(1)>>)
      [] key = "Symmetry" -> JArr(<<>>)
      [] key = "Batches" -> JArr(<<JInt(1)>>)
      [] key = "SortOrder" -> JArr(<<JReal(1)>>)
      [] key = "UnknownHeaders" -> JInt(1)

OptionalTopTrees ==
    {JObj([key \in {x \in OptionalTopKeys : a[x] # "absent"} \cup {"Crystals"} |->
              IF key # "Crystals" /\ a[key] = "wrong" THEN WrongTop(key)
              ELSE BaseTree.o[key]]) :
        a \in [OptionalTopKeys -> {"right", "absent", "wrong"}]}

\* one field of the first crystal, dataset, column or batch, or of the symmetry
\* object, is absent or of the wrong type (null, or an array of the wrong shape)
XtalPlace == <<K("Crystals"), I(1)>>
SetPlace == XtalPlace \o <<K("Datasets"), I(1)>>
ColPlace == SetPlace \o <<K("Columns"), I(1)>>
BatchPlace == <<K("Batches"), I(1)>>

FieldPlaces ==
    {XtalPlace \o <<K(f)>> : f \in {"CrystalName", "CrystalID", "CellConstants",
                                    "ProjectName", "ResolutionMax", "ResolutionMin"}}
    \cup {SetPlace \o <<K(f)>> : f \in {"DatasetName", "DatasetID", "Wavelength"}}
    \cup {ColPlace \o <<K(f)>> : f \in {"ColumnSource", "GroupName", "GroupPosition",
                                        "GroupType", "Label", "MaxValue", "MinValue",
                                        "ColumnID", "Type"}}
    \cup {BatchPlace \o <<K(f)>> : f \in {"Title", "DatasetID", "CrystalNumber",
                                          "BatchNumber", "Wavelength", "CellDimensions",
                                          "DetectorLimits", "OrientationBlockType",
                                          "JumpAxis", "AxesLabels"}}
    \cup {<<K("Symmetry"), K(f)>> : f \in {"SpaceGroupNumber", "SpaceGroupName",
                                           "PointGroupName", "SpaceGroupConfidence",
                                           "NumberOfSymmetryOperations",
                                           "NumberOfPrimitiveSymmetryOperations",
                                           "LatticeType"}}

FieldDefectTrees ==
    {PutAt(BaseTree, pl, v) : pl \in FieldPlaces, v \in {JNull, JArr(<<JReal(1), JReal(2)>>)}}
    \cup {PutAt(BaseTree, XtalPlace \o <<K("CellConstants")>>,
                JArr([i \in 1..(NCell + 1) |-> JReal(i)]))}
    \cup {PutAt(BaseTree, BatchPlace \o <<K("AxesLabels")>>,
                JArr(<<JStr(Text(1)), JInt(1), JStr(Text(3))>>))}
    \cup {DropAt(BaseTree, Parent(pl), pl[Len(pl)].k) : pl \in FieldPlaces}
    \cup {PutAt(BaseTree, <<K("Symmetry"), K("SymmetryOperations")>>, v) :
            v \in {JNull, JArr(<<>>),
                   JArr([i \in 1..NSymOps |-> JArr([j \in 1..4 |->
                          JArr([k \in 1..4 |-> JReal(i + j + k)])])]),
                   JArr([i \in 1..NSymOps |-> JArr([j \in 1..4 |->
                          JArr([k \in 1..4 |-> IF i = NSymOps THEN JInt(1)
                                               ELSE JReal(1)])])])}}

\* titles of every length up to MaxTitle
TitleTrees == {Tree(BaseHierarchy, JStr(Text(n)), JArr(<<>>)) : n \in 0..MaxTitle}

\* sort orders: the three columns of BaseHierarchy carry source ids from
\* SourceIds, SortOrder lists ids from SourceIds and one more
SourceIds == {1, 3, 7}

SortTrees ==
    {PutAt(PutAt(PutAt(PutAt(BaseTree,
        <<K("SortOrder")>>, JArr([p \in 1..Len(so) |-> JInt(so[p])])),
        ColPlace \o <<K("ColumnID")>>, JInt(ids[1])),
        SetPlace \o <<K("Columns"), I(2), K("ColumnID")>>, JInt(ids[2])),
        <<K("Crystals"), I(2), K("Datasets"), I(1), K("Columns"), I(1), K("ColumnID")>>,
        JInt(ids[3])) :
      ids \in [1..3 -> SourceIds], so \in SeqsUpTo(SourceIds \cup {9}, MaxSort)}

\* sort orders that fill the NOrder slots and that go one past them
OrderTrees ==
    {PutAt(BaseTree, <<K("SortOrder")>>, JArr([p \in 1..n |-> JInt(1)])) :
        n \in {NOrder, NOrder + 1}}

\* Batches lists of 0..MaxChain objects, told apart by title and number
MaxChain == 3

BatchTrees ==
    {PutAt(BaseTree, <<K("Batches")>>, JArr([b \in 1..n |-> TreeBatch(n + 2 - b)])) :
        n \in 0..MaxChain}

\* every string field of the first crystal, dataset, column and batch and of the
\* symmetry object set to a text of the same length: one short of the space
\* group name's capacity, equal to it, and longer than every capacity
StringPlaces ==
    <<XtalPlace \o <<K("CrystalName")>>, XtalPlace \o <<K("ProjectName")>>,
      SetPlace \o <<K("DatasetName")>>,
      ColPlace \o <<K("Label")>>, ColPlace \o <<K("Type")>>, ColPlace \o <<K("GroupName")>>,
      ColPlace \o <<K("GroupType")>>, ColPlace \o <<K("ColumnSource")>>,
      BatchPlace \o <<K("Title")>>,
      <<K("Symmetry"), K("SpaceGroupName")>>, <<K("Symmetry"), K("PointGroupName")>>>>

RECURSIVE PutAll(_, _, _)
PutAll(j, places, v) ==
    IF places = <<>> THEN j ELSE PutAll(PutAt(j, places[1], v), Tail(places), v)

NameTrees ==
    {PutAt(PutAll(BaseTree, StringPlaces, JStr(Text(n))),
           BatchPlace \o <<K("AxesLabels")>>, JArr([i \in 1..3 |-> JStr(Text(n))])) :
        n \in {SpgNameSize - 1, SpgNameSize, MaxTitle}}

\* Data arrays of every mix of element types in the first column
DataElements == {JReal(1), JReal(2), JInt(4), JStr(NaNToken), JNull}

DataTrees ==
    {PutAt(Tree(<< << <<Len(d), Len(d)>> >> >>, JStr(Text(3)), JArr(<<>>)),
           ColPlace \o <<K("Data")>>, JArr(d)) : d \in SeqsUpTo(DataElements, MaxRef)}

ImportInputs ==
    HierarchyTrees \cup StructureDefectTrees \cup OptionalTopTrees \cup FieldDefectTrees
    \cup TitleTrees \cup SortTrees \cup OrderTrees \cup BatchTrees \cup NameTrees
    \cup DataTrees

(***************************************************************************)
(* Inputs of the shape validator: dimension vectors of rank 0..2 and       *)
(* nested arrays of the same rank (and, at rank 0, flat arrays).           *)
(***************************************************************************)
LeafArrays ==
    {JArr([i \in 1..k |-> JReal(i)]) : k \in 0..MaxDim}
    \cup {JArr([i \in 1..k |-> IF i = k THEN JInt(i) ELSE JReal(i)]) : k \in 1..MaxDim}

NestedArrays == {JArr(s) : s \in SeqsUpTo(LeafArrays, MaxDim)}

\* values that are no sequence, alone and as elements of a sequence
ScalarNodes == {JNull, JReal(1), JStr(Text(1)), JObj([Data |-> JArr(<<>>)])}
MixedArrays ==
    {JArr(<<x>>) : x \in ScalarNodes}
    \cup {JArr(<<JArr(<<>>), x>>) : x \in ScalarNodes}

ShapeInputs ==
    {<<n, d>> : n \in LeafArrays, d \in SeqsUpTo(0..MaxDim, 1)}
    \cup {<<n, d>> : n \in NestedArrays, d \in [1..2 -> 0..MaxDim]}
    \cup {<<n, d>> : n \in ScalarNodes, d \in {<<0>>, <<1>>, <<0, 0>>, <<1, 0>>}}
    \cup {<<n, d>> : n \in MixedArrays, d \in {<<1, 0>>, <<2, 0>>, <<2, 1>>}}

CheckFunctions ==
    {"json_truth", "json_array_is_homogenous_real", "json_array_is_homogenous_integer"}

(***************************************************************************)
(* Records as MtzGet hands them to readMtz: nref = nref_filein, every       *)
(* column with nref reflections, history and unknown header lines padded    *)
(* with spaces to MTZRECORDLENGTH, distinct column source ids.              *)
(***************************************************************************)
MaxBatch == 1
MaxHist == 1
MaxUnknown == 2

RefValues == {1, 2, FNAN}

\* lines PaddedLine(first + 1), .., PaddedLine(first + n) in one buffer
PaddedLines(n, first) ==
    [p \in 1..(n * MTZRECORDLENGTH) |->
        PaddedLine(first + ((p - 1) \div MTZRECORDLENGTH) + 1)[((p - 1) % MTZRECORDLENGTH) + 1]]

ExportCol(i, k, ref) ==
    [label |-> Text(k), type |-> Text(1), active |-> 1, source |-> 10 * i + k,
     min |-> 1, max |-> 9, colsource |-> Text(3), grpname |-> Text(2),
     grptype |-> Text(1), grpposn |-> k, ref |-> ref]

\* crystal i: one dataset of two columns, the first with the reflections refs
ExportXtal(i, refs) ==
    [xname |-> Text(i), pname |-> Text(2), xtalid |-> i,
     cell |-> [c \in 1..NCell |-> 10 * c], resmin |-> 1, resmax |-> 3, nset |-> 1,
     set |-> <<[dname |-> Text(i), setid |-> i, wavelength |-> 2, ncol |-> 2,
                col |-> <<ExportCol(i, 1, refs),
                          ExportCol(i, 2, [p \in 1..Len(refs) |-> 20 + p])>>]>>]

ExportSymgrp ==
    [spcgrp |-> 19, spcgrpname |-> strncpy(Text(4), SpgNameSize),
     pgname |-> strncpy(Text(3), PgNameSize), spg_confidence |-> 88,
     nsym |-> 4, nsymp |-> 4, symtyp |-> 80,
     sym |-> [i \in 1..NSymOps |-> [j \in 1..4 |-> [k \in 1..4 |->
                 IF i <= 4 /\ j = k THEN i ELSE 0]]]]

ExportBatch(b, iortyp) ==
    [title |-> Text(b), num |-> b, nbsetid |-> 1, ncryst |-> 1, iortyp |-> iortyp,
     jumpax |-> 2, alambd |-> 2, cell |-> [c \in 1..NCell |-> 10 * c],
     detlm |-> [i \in 1..2 |-> [j \in 1..2 |-> [k \in 1..2 |-> 4 * i + 2 * j + k]]],
     gonlab |-> [i \in 1..3 |-> Text(i)]]

\* nxtal crystals, the first column holding refs; one batch per element of
\* iortyps; nhist history lines; nunknown unknown header lines; sorted on the
\* second and the first column of crystal 1 when sorted
ExportRecord(nxtal, refs, iortyps, nhist, nunknown, sorted) ==
    [title |-> Text(3), histlines |-> nhist, hist |-> PaddedLines(nhist, 4),
     nxtal |-> nxtal,
     xtal |-> [i \in 1..nxtal |->
                 ExportXtal(i, IF i = 1 THEN refs ELSE [p \in 1..Len(refs) |-> 30 + p])],
     nref |-> Len(refs), nref_filein |-> Len(refs), refs_in_memory |-> 1,
     resmax_out |-> 3, resmin_out |-> 1,
     mtzsymm |-> ExportSymgrp,
     batch |-> [b \in 1..Len(iortyps) |-> ExportBatch(b, iortyps[b])],
     order |-> [i \in 1..NOrder |->
                  IF sorted /\ i = 1 THEN <<1, 1, 2>>
                  ELSE IF sorted /\ i = 2 THEN <<1, 1, 1>> ELSE NoCol],
     n_unknown_headers |-> nunknown, unknown_headers |-> PaddedLines(nunknown, 8)]

FullRefs == [p \in 1..MaxRef |-> p]

\* records with one history line or two unknown header lines that are empty
\* (all NUL, as MtzCallocHist leaves them) or made of spaces only
BlankLines(n) ==
    {[p \in 1..(n * MTZRECORDLENGTH) |-> 0], [p \in 1..(n * MTZRECORDLENGTH) |-> 32]}

BlankLineRecords ==
    {[ExportRecord(1, FullRefs, <<>>, 1, 0, FALSE) EXCEPT !.hist = l] : l \in BlankLines(1)}
    \cup {[ExportRecord(1, FullRefs, <<>>, 0, 2, FALSE) EXCEPT !.unknown_headers = l] :
            l \in BlankLines(2)}

ExportInputs ==
    BlankLineRecords
    \cup {ExportRecord(x, refs, <<>>, 0, 0, FALSE) :
        x \in 1..2, refs \in SeqsUpTo(RefValues, MaxRef)}
    \cup {ExportRecord(1, FullRefs, b, 0, 0, FALSE) : b \in SeqsUpTo({0, 1}, MaxBatch)}
    \cup {ExportRecord(x, FullRefs, <<>>, h, u, so) :
            x \in 1..2, h \in 0..MaxHist, u \in 0..MaxUnknown, so \in BOOLEAN}

\* the value of ret before a call returned
NoRet == 0 - 1

UBOutcomes == [fault : BOOLEAN, garbage : 0..MaxRef]

(***************************************************************************)
(* The timestamp line.  A char buffer that was declared but not written    *)
(* holds Indeterminate bytes.                                              *)
(***************************************************************************)
Indeterminate == 0 - 2

Buffer(s) == [t |-> "buffer", s |-> s]

\* the size handed to snprintf for the job label (jobstring is char[57])
JobSize == 56

\* the characters taken from the text ctime() returns
TimeSize == 24

\* without the clamp of timestring_index to the label's length
makeTimestampFixedIndex(jobstring, timestring) ==
    LET L == Len(CStr(jobstring))
        timestring_index == JobSize
        job == strncpy(jobstring, timestring_index - 1)
        time == strncpy(timestring, TimeSize)
        fill == MTZRECORDLENGTH - TimeSize - 1 - L
    IN  IF fill < 0 THEN Fault
        ELSE Buffer([i \in 1..MTZRECORDLENGTH |->
                IF i <= timestring_index - 1 THEN job[i]
                ELSE IF i = timestring_index THEN 32
                ELSE IF i <= timestring_index + TimeSize THEN time[i - timestring_index]
                ELSE IF i <= timestring_index + TimeSize + fill THEN 32
                ELSE Indeterminate])

\* makeTimestamp(jobstring, timestring, timestamp): the 80 bytes of timestamp
\* after the call.  The length of the memset is a size_t: for a label longer
\* than 55 characters it wraps around and the fill runs off the buffer.
makeTimestamp(jobstring, timestring) ==
    LET L == Len(CStr(jobstring))
        timestring_index == IF JobSize - 1 > L THEN L + 1 ELSE JobSize
        job == strncpy(jobstring, timestring_index - 1)
        time == strncpy(timestring, TimeSize)
        fill == MTZRECORDLENGTH - TimeSize - 1 - L
    IN  IF fill < 0 THEN Fault
        ELSE Buffer([i \in 1..MTZRECORDLENGTH |->
                IF i <= timestring_index - 1 THEN job[i]
                ELSE IF i = timestring_index THEN 32
                ELSE IF i <= timestring_index + TimeSize THEN time[i - timestring_index]
                ELSE IF i <= timestring_index + TimeSize + fill THEN 32
                ELSE Indeterminate])

\* job labels up to one character beyond what snprintf(jobstring, 56, ...) leaves
MaxLabel == 56

\* the 25 characters of a ctime() text, the newline included
ClockText(base) == [i \in 1..(TimeSize + 1) |-> IF i = TimeSize + 1 THEN 10 ELSE base + (i % 10)]

ClockTexts == {ClockText(48), ClockText(65)}

TimestampInputs == [jobstring : {Text(n) : n \in 0..MaxLabel}, timestring : ClockTexts]

(***************************************************************************)
(* The conversions mtz2json and json2mtz, jsonmtz.c 76-178.  The files are *)
(* outside the model: opts carries, besides the options, what the file     *)
(* system and the codecs answer (readable: access succeeds, parsed: MtzGet *)
(* returns a record, dumped: json_dump_file succeeds, loaded:              *)
(* json_load_file returns a tree, written: MtzPut succeeds), and file is   *)
(* the content MtzGet or json_load_file returns.  A conversion yields its  *)
(* return value, the                                                       *)
(* calls it made in their order, the record as it is after the timestamp   *)
(* step, and the tree or record handed to the writer.                      *)
(***************************************************************************)
\* "mtz2json v1.0.9 run on" and "json2mtz v1.0.9 run on" (project version 1.0.9)
Mtz2JsonLabel ==
    <<109, 116, 122, 50, 106, 115, 111, 110, 32, 118, 49, 46, 48, 46, 57, 32,
      114, 117, 110, 32, 111, 110>>

Json2MtzLabel ==
    <<106, 115, 111, 110, 50, 109, 116, 122, 32, 118, 49, 46, 48, 46, 57, 32,
      114, 117, 110, 32, 111, 110>>

\* the timestamp step 96-109 and 158-171 on the record mtz, stamp being the
\* line makeTimestamp wrote: a zeroed buffer of one more line, the old lines
\* copied by one strncpy over their whole length, the new line after them
AppendTimestamp(mtz, stamp) ==
    LET n == MTZRECORDLENGTH * mtz.histlines
        old == strncpy(mtz.hist, n)
        new == strncpy(stamp, MTZRECORDLENGTH)
        zero == MtzCallocHist(mtz.histlines + 1)
    IN  [mtz EXCEPT !.hist = [p \in 1..Len(zero) |-> IF p <= n THEN old[p] ELSE new[p - n]],
                    !.histlines = mtz.histlines + 1]

Outcome(code, calls, mtz, tree, stamp, fault) ==
    [ret |-> code, calls |-> calls, mtz |-> mtz, tree |-> tree, stamp |-> stamp,
     fault |-> fault]

\* as mtz2json, the file handed to MtzGet before access is asked
mtz2jsonParseFirst(file, opts, ub) ==
    IF ~opts.readable
    THEN Outcome(2, <<Call("MtzGet"), Call("access")>>, NULL, NULL, NULL, FALSE)
    ELSE IF ~opts.parsed
    THEN Outcome(NoRet, <<Call("access"), Call("MtzGet"), Call("MtzAssignHKLtoBase")>>,
                 NULL, NULL, NULL, TRUE)
    ELSE LET jobstring == snprintf_s(JobSize, Mtz2JsonLabel)
             stamp == IF opts.timestamp THEN makeTimestamp(jobstring, opts.timestring)
                      ELSE NULL
             mtzin == IF opts.timestamp THEN AppendTimestamp(file, stamp.s) ELSE file
             jsonmtz == readMtz(mtzin, ub)
             calls == <<Call("access"), Call("MtzGet"), Call("MtzAssignHKLtoBase")>>
                      \o (IF opts.timestamp THEN <<Call("makeTimestamp")>> ELSE <<>>)
                      \o <<Call("readMtz")>>
         IN  IF jsonmtz = Fault
             THEN Outcome(NoRet, calls, mtzin, NULL, stamp, TRUE)
             ELSE Outcome(IF opts.dumped THEN 0 ELSE 0 - 1,
                          calls \o <<Call("json_dump_file")>>,
                          mtzin, IF opts.dumped THEN jsonmtz ELSE NULL, stamp, FALSE)

\* mtz2json(file_in, file_out, opts).  MtzAssignHKLtoBase and readMtz
\* dereference mtzin without a test: when MtzGet returned NULL the run faults.
mtz2json(file, opts, ub) ==
    IF ~opts.readable
    THEN Outcome(2, <<Call("access")>>, NULL, NULL, NULL, FALSE)
    ELSE IF ~opts.parsed
    THEN Outcome(NoRet, <<Call("access"), Call("MtzGet"), Call("MtzAssignHKLtoBase")>>,
                 NULL, NULL, NULL, TRUE)
    ELSE LET jobstring == snprintf_s(JobSize, Mtz2JsonLabel)
             stamp == IF opts.timestamp THEN makeTimestamp(jobstring, opts.timestring)
                      ELSE NULL
             mtzin == IF opts.timestamp THEN AppendTimestamp(file, stamp.s) ELSE file
             jsonmtz == readMtz(mtzin, ub)
             calls == <<Call("access"), Call("MtzGet"), Call("MtzAssignHKLtoBase")>>
                      \o (IF opts.timestamp THEN <<Call("makeTimestamp")>> ELSE <<>>)
                      \o <<Call("readMtz")>>
         IN  IF jsonmtz = Fault
             THEN Outcome(NoRet, calls, mtzin, NULL, stamp, TRUE)
             ELSE Outcome(IF opts.dumped THEN 0 ELSE 0 - 1,
                          calls \o <<Call("json_dump_file")>>,
                          mtzin, IF opts.dumped THEN jsonmtz ELSE NULL, stamp, FALSE)

\* as json2mtz, the timestamp made before the result of makeMtz is tested
json2mtzStampFirst(file, opts, ub) ==
    IF ~opts.loaded
    THEN Outcome(1, <<Call("json_load_file")>>, NULL, NULL, NULL, FALSE)
    ELSE LET built == makeMtz(file, ub)
             calls == <<Call("json_load_file")>> \o makeMtzTrace(file, built = Fault)
             jobstring == snprintf_s(JobSize, Json2MtzLabel)
             stamp == IF opts.timestamp THEN makeTimestamp(jobstring, opts.timestring)
                      ELSE NULL
         IN  IF built = Fault THEN Outcome(NoRet, calls, NULL, NULL, NULL, TRUE)
             ELSE IF built = NULL
             THEN Outcome(2, calls \o (IF opts.timestamp THEN <<Call("makeTimestamp")>>
                                        ELSE <<>>), NULL, NULL, stamp, FALSE)
             ELSE LET mtzout == IF opts.timestamp THEN AppendTimestamp(built, stamp.s)
                                ELSE built
                  IN  Outcome(0,
                              calls \o (IF opts.timestamp THEN <<Call("makeTimestamp")>>
                                        ELSE <<>>)
                                    \o <<Call("MtzPut")>>,
                              mtzout, NULL, stamp, FALSE)

\* json2mtz(file_in, file_out, opts).  The result of MtzPut is not looked at.
json2mtz(file, opts, ub) ==
    IF ~opts.loaded
    THEN Outcome(1, <<Call("json_load_file")>>, NULL, NULL, NULL, FALSE)
    ELSE LET built == makeMtz(file, ub)
             calls == <<Call("json_load_file")>> \o makeMtzTrace(file, built = Fault)
             jobstring == snprintf_s(JobSize, Json2MtzLabel)
             stamp == IF opts.timestamp THEN makeTimestamp(jobstring, opts.timestring)
                      ELSE NULL
         IN  IF built = Fault THEN Outcome(NoRet, calls, NULL, NULL, NULL, TRUE)
             ELSE IF built = NULL THEN Outcome(2, calls, NULL, NULL, NULL, FALSE)
             ELSE LET mtzout == IF opts.timestamp THEN AppendTimestamp(built, stamp.s)
                                ELSE built
                  IN  Outcome(0,
                              calls \o (IF opts.timestamp THEN <<Call("makeTimestamp")>>
                                        ELSE <<>>)
                                    \o <<Call("MtzPut")>>,
                              mtzout, NULL, stamp, FALSE)

\* history lines of the records mtz2json reads
MaxLines == 2

ConvertRecords == {ExportRecord(1, FullRefs, <<>>, h, 0, FALSE) : h \in 0..MaxLines}

\* trees json2mtz reads: histories of short and of full lines, no history, and
\* trees makeMtz rejects
HistoryTrees ==
    {PutAt(BaseTree, <<K("History")>>, JArr([i \in 1..Len(w) |-> JStr(Text(w[i]))])) :
        w \in SeqsUpTo({5, MTZRECORDLENGTH}, MaxLines)}

ConvertTrees ==
    HistoryTrees
    \cup {BaseTree, Tree(<< << <<1, 2>> >> >>, JStr(Text(3)), JArr(<<>>)),
          PutAt(BaseTree, <<K("Crystals")>>, JNull), JNull}

Mtz2JsonOptions ==
    {o \in [readable : BOOLEAN, parsed : BOOLEAN, dumped : BOOLEAN, timestamp : BOOLEAN,
            compact : BOOLEAN, timestring : ClockTexts] : o.parsed => o.readable}

\* written: MtzPut succeeds in writing file_out
Json2MtzOptions ==
    [loaded : BOOLEAN, written : BOOLEAN, timestamp : BOOLEAN, timestring : ClockTexts]

(***************************************************************************)
(* The executables, mtz2json.c and json2mtz.c.  A command line is the      *)
(* sequence of its option letters, the number of file names after them and *)
(* whether the two names are equal; the exit status is the outcome's ret.  *)
(***************************************************************************)
Mtz2JsonOptstring == {"c", "h", "v", "n", "f"}

Json2MtzOptstring == {"h", "v", "n", "f"}

\* getopt_long on one option: '?' for a letter that is not in optstring
getopt_long(optstring, letter) == IF letter \in optstring THEN letter ELSE "?"

\* opts as main initialises it; usage: main returned 1 from the option loop
DefaultOptions ==
    [compact |-> FALSE, help |-> FALSE, version |-> FALSE, timestamp |-> TRUE,
     force |-> FALSE, usage |-> FALSE]

\* the option loop from option k on.  case 'f' has no break: it sets force and
\* runs into case '?', which prints the usage hint and returns 1.
RECURSIVE ParseOptions(_, _, _, _)
ParseOptions(optstring, options, k, opts) ==
    IF k > Len(options) THEN opts
    ELSE LET o == getopt_long(optstring, options[k])
         IN  IF o = "h" THEN ParseOptions(optstring, options, k + 1, [opts EXCEPT !.help = TRUE])
             ELSE IF o = "c"
             THEN ParseOptions(optstring, options, k + 1, [opts EXCEPT !.compact = TRUE])
             ELSE IF o = "v"
             THEN ParseOptions(optstring, options, k + 1, [opts EXCEPT !.version = TRUE])
             ELSE IF o = "n"
             THEN ParseOptions(optstring, options, k + 1, [opts EXCEPT !.timestamp = FALSE])
             ELSE IF o = "f" THEN [opts EXCEPT !.force = TRUE, !.usage = TRUE]
             ELSE [opts EXCEPT !.usage = TRUE]

Exit(code) == Outcome(code, <<>>, NULL, NULL, NULL, FALSE)

\* the status of a main that reaches its closing brace (C99 5.1.2.2.3)
MainEnd == 0

\* the end of main of mtz2json.c, 115-129, r being the outcome of the
\* conversion: after ret == 2 it prints "No such file." and runs to the end of
\* main without a return statement
Mtz2JsonStatus(r) ==
    IF r.fault THEN r
    ELSE IF r.ret = 0 THEN r
    ELSE IF r.ret = 2 THEN [r EXCEPT !.ret = MainEnd]
    ELSE [r EXCEPT !.ret = 1]

\* main of mtz2json.c
Mtz2JsonMain(cmd, file, ub) ==
    LET opts == ParseOptions(Mtz2JsonOptstring, cmd.options, 1, DefaultOptions)
    IN  IF opts.usage THEN Exit(1)
        ELSE IF opts.help THEN Exit(0)
        ELSE IF opts.version THEN Exit(0)
        ELSE IF cmd.nfiles # 2 THEN Exit(1)
        ELSE IF ~cmd.same \/ opts.force
        THEN Mtz2JsonStatus(mtz2json(file,
                                     [readable |-> cmd.readable, parsed |-> cmd.parsed,
                                      dumped |-> cmd.dumped, timestamp |-> opts.timestamp,
                                      compact |-> opts.compact,
                                      timestring |-> cmd.timestring],
                                     ub))
        ELSE Exit(1)

\* the switch at the end of main of json2mtz.c, 108-119
Json2MtzStatus(r) ==
    IF r.fault THEN r
    ELSE IF r.ret = 0 THEN r
    ELSE IF r.ret = 1 THEN r
    ELSE IF r.ret = 2 THEN [r EXCEPT !.ret = 1]
    ELSE [r EXCEPT !.ret = MainEnd]

\* main of json2mtz.c
Json2MtzMain(cmd, file, ub) ==
    LET opts == ParseOptions(Json2MtzOptstring, cmd.options, 1, DefaultOptions)
    IN  IF opts.usage THEN Exit(1)
        ELSE IF opts.help THEN Exit(0)
        ELSE IF opts.version THEN Exit(0)
        ELSE IF cmd.nfiles # 2 THEN Exit(1)
        ELSE IF ~cmd.same \/ opts.force
        THEN Json2MtzStatus(json2mtz(file,
                                     [loaded |-> cmd.loaded, written |-> cmd.written,
                                      timestamp |-> opts.timestamp,
                                      timestring |-> cmd.timestring],
                                     ub))
        ELSE Exit(1)

\* command lines: up to MaxOptions option letters ("x" is no option of either
\* executable) and up to MaxFiles file names
MaxOptions == 2

MaxFiles == 3

OptionLetters == {"h", "c", "v", "n", "f", "x"}

CommandLines ==
    {c \in [options : SeqsUpTo(OptionLetters, MaxOptions), nfiles : 0..MaxFiles,
            same : BOOLEAN] : c.same => c.nfiles = 2}

\* r @@ c for two records
Join(r, c) == [f \in DOMAIN r \cup DOMAIN c |-> IF f \in DOMAIN r THEN r[f] ELSE c[f]]

Mtz2JsonCommands ==
    {Join(c, f) : c \in CommandLines,
                  f \in {x \in [readable : BOOLEAN, parsed : BOOLEAN, dumped : BOOLEAN,
                                timestring : {ClockText(48)}] : x.parsed => x.readable}}

Json2MtzCommands ==
    {Join(c, f) : c \in CommandLines,
                  f \in [loaded : BOOLEAN, written : BOOLEAN, timestring : {ClockText(48)}]}

(***************************************************************************)
(* The state machine.  mode selects the library entry point exercised:     *)
(*   "shape"   a call of the shape validator;                               *)
(*   "import"  makeMtz on a tree, then readMtz on the record it returned;   *)
(*   "export"  readMtz on a record, then makeMtz on the tree it returned;   *)
(*   "timestamp"  a call of makeTimestamp;                                 *)
(*   "mtz2json", "json2mtz"  a call of the conversion of that name;        *)
(*   "mtz2json_main", "json2mtz_main"  a run of the executable.            *)
(***************************************************************************)
Start ==
    /\ pc = "start"
    /\ ret = NoRet
    /\ mtz_out = NULL
    /\ json_out = NULL
    /\ log = <<>>
    /\ timestamp = NULL

InitShape ==
    /\ mode = "shape"
    /\ \E in \in ShapeInputs : node = in[1] /\ dim = in[2]
    /\ check \in CheckFunctions
    /\ json_in = NULL /\ mtz_in = NULL
    /\ env = NULL

InitImport ==
    /\ mode = "import"
    /\ json_in \in ImportInputs
    /\ node = NULL /\ dim = <<>> /\ check = "json_truth" /\ mtz_in = NULL
    /\ env = NULL

InitExport ==
    /\ mode = "export"
    /\ mtz_in \in ExportInputs
    /\ node = NULL /\ dim = <<>> /\ check = "json_truth" /\ json_in = NULL
    /\ env = NULL

InitTimestamp ==
    /\ mode = "timestamp"
    /\ env \in TimestampInputs
    /\ node = NULL /\ dim = <<>> /\ check = "json_truth"
    /\ json_in = NULL /\ mtz_in = NULL

InitMtz2Json ==
    /\ mode = "mtz2json"
    /\ env \in Mtz2JsonOptions
    /\ mtz_in \in (IF env.parsed THEN ConvertRecords ELSE {NULL})
    /\ node = NULL /\ dim = <<>> /\ check = "json_truth" /\ json_in = NULL

InitJson2Mtz ==
    /\ mode = "json2mtz"
    /\ env \in Json2MtzOptions
    /\ json_in \in (IF env.loaded THEN ConvertTrees ELSE {NULL})
    /\ node = NULL /\ dim = <<>> /\ check = "json_truth" /\ mtz_in = NULL

InitConvert == InitMtz2Json \/ InitJson2Mtz

InitMtz2JsonMain ==
    /\ mode = "mtz2json_main"
    /\ env \in Mtz2JsonCommands
    /\ mtz_in \in (IF env.parsed THEN {ExportRecord(1, FullRefs, <<>>, 1, 0, FALSE)}
                   ELSE {NULL})
    /\ node = NULL /\ dim = <<>> /\ check = "json_truth" /\ json_in = NULL

InitJson2MtzMain ==
    /\ mode = "json2mtz_main"
    /\ env \in Json2MtzCommands
    /\ json_in \in (IF env.loaded
                    THEN {BaseTree, Tree(<< << <<1, 2>> >> >>, JStr(Text(3)), JArr(<<>>))}
                    ELSE {NULL})
    /\ node = NULL /\ dim = <<>> /\ check = "json_truth" /\ mtz_in = NULL

InitMain == InitMtz2JsonMain \/ InitJson2MtzMain

Init ==
    Start /\ (InitShape \/ InitImport \/ InitExport \/ InitTimestamp \/ InitConvert
              \/ InitMain)

\* a call json_array_check_dimensions_f(node, dim, len, check)
CheckDimensions ==
    /\ mode = "shape" /\ pc = "start"
    /\ ret' = json_array_check_dimensions_f(node, dim, Len(dim), check)
    /\ pc' = "done"
    /\ UNCHANGED <<mode, node, dim, check, json_in, mtz_in, mtz_out, json_out, env, log, timestamp>>

\* a call makeMtz(json_in)
MakeMtz ==
    /\ mode = "import" /\ pc = "start"
    /\ \E ub \in UBOutcomes : mtz_out' = makeMtz(json_in, ub)
    /\ log' = makeMtzTrace(json_in, mtz_out' = Fault)
    /\ pc' = "built"
    /\ UNCHANGED <<mode, node, dim, check, ret, json_in, mtz_in, json_out, env, timestamp>>

\* a call readMtz on the record makeMtz returned
ReadBack ==
    /\ mode = "import" /\ pc = "built"
    /\ IsMtz(mtz_out)
    /\ \E ub \in UBOutcomes : json_out' = readMtz(mtz_out, ub)
    /\ pc' = "readback"
    /\ UNCHANGED <<mode, node, dim, check, ret, json_in, mtz_in, mtz_out, env, log, timestamp>>

\* a call readMtz(mtz_in)
ReadMtz ==
    /\ mode = "export" /\ pc = "start"
    /\ \E ub \in UBOutcomes : json_out' = readMtz(mtz_in, ub)
    /\ pc' = "read"
    /\ UNCHANGED <<mode, node, dim, check, ret, json_in, mtz_in, mtz_out, env, log, timestamp>>

\* a call makeMtz on the tree readMtz returned
Rebuild ==
    /\ mode = "export" /\ pc = "read"
    /\ json_out # Fault
    /\ \E ub \in UBOutcomes : mtz_out' = makeMtz(json_out, ub)
    /\ log' = makeMtzTrace(json_out, mtz_out' = Fault)
    /\ pc' = "rebuilt"
    /\ UNCHANGED <<mode, node, dim, check, ret, json_in, mtz_in, json_out, env, timestamp>>

\* a call makeTimestamp(jobstring, timestring, timestamp)
MakeTimestamp ==
    /\ mode = "timestamp" /\ pc = "start"
    /\ timestamp' = makeTimestamp(env.jobstring, env.timestring)
    /\ pc' = "stamped"
    /\ UNCHANGED <<mode, node, dim, check, ret, json_in, mtz_in, mtz_out, json_out, env, log>>

\* the state after a conversion or a process returned the outcome r
Finish(r) ==
    /\ ret' = r.ret
    /\ log' = r.calls
    /\ mtz_out' = r.mtz
    /\ json_out' = r.tree
    /\ timestamp' = r.stamp
    /\ pc' = IF r.fault THEN "fault" ELSE "returned"
    /\ UNCHANGED <<mode, node, dim, check, json_in, mtz_in, env>>

\* a call mtz2json(file_in, file_out, opts)
Mtz2Json ==
    /\ mode = "mtz2json" /\ pc = "start"
    /\ \E ub \in UBOutcomes : \E r \in {mtz2json(mtz_in, env, ub)} : Finish(r)

\* a call json2mtz(file_in, file_out, opts)
Json2Mtz ==
    /\ mode = "json2mtz" /\ pc = "start"
    /\ \E ub \in UBOutcomes : \E r \in {json2mtz(json_in, env, ub)} : Finish(r)

\* a run of the executable mtz2json
RunMtz2Json ==
    /\ mode = "mtz2json_main" /\ pc = "start"
    /\ \E ub \in UBOutcomes : \E r \in {Mtz2JsonMain(env, mtz_in, ub)} : Finish(r)

\* a run of the executable json2mtz
RunJson2Mtz ==
    /\ mode = "json2mtz_main" /\ pc = "start"
    /\ \E ub \in UBOutcomes : \E r \in {Json2MtzMain(env, json_in, ub)} : Finish(r)

NextShape == CheckDimensions

NextImport == MakeMtz \/ ReadBack

NextExport == ReadMtz \/ Rebuild

NextTimestamp == MakeTimestamp

NextConvert == Mtz2Json \/ Json2Mtz

NextMain == RunMtz2Json \/ RunJson2Mtz

Next ==
    \/ CheckDimensions \/ MakeMtz \/ ReadBack \/ ReadMtz \/ Rebuild \/ MakeTimestamp
    \/ Mtz2Json \/ Json2Mtz \/ RunMtz2Json \/ RunJson2Mtz

Spec == Init /\ [][Next]_vars

\* the three entry points on their own
StartShape == Start /\ InitShape

SpecShape == StartShape /\ [][NextShape]_vars

StartImport == Start /\ InitImport

SpecImport == StartImport /\ [][NextImport]_vars

StartExport == Start /\ InitExport

SpecExport == StartExport /\ [][NextExport]_vars

StartTimestamp == Start /\ InitTimestamp

SpecTimestamp == StartTimestamp /\ [][NextTimestamp]_vars

StartConvert == Start /\ InitConvert

SpecConvert == StartConvert /\ [][NextConvert]_vars

StartMain == Start /\ InitMain

SpecMain == StartMain /\ [][NextMain]_vars

(***************************************************************************)
(* Properties of the shape validator.                                      *)
(***************************************************************************)
\* the nodes l levels below n
RECURSIVE NodesAt(_, _)
NodesAt(n, l) ==
    IF l = 0 THEN {n}
    ELSE UNION {{x.a[i] : i \in 1..Len(x.a)} : x \in NodesAt(n, l - 1)}

LeafHolds(f, x) ==
    CASE f = "json_truth" -> TRUE
      [] f = "json_array_is_homogenous_real" -> \A i \in 1..Len(x.a) : x.a[i].t = "real"
      [] f = "json_array_is_homogenous_integer" -> \A i \in 1..Len(x.a) : x.a[i].t = "integer"
      [] f = "json_array_is_homogenous_string" -> \A i \in 1..Len(x.a) : x.a[i].t = "string"

\* n is a sequence whose elements, down to depth levels, are sequences
RECURSIVE SequenceNested(_, _)
SequenceNested(n, depth) ==
    depth = 0 \/ (n.t = "array" /\ \A i \in 1..Len(n.a) : SequenceNested(n.a[i], depth - 1))

\* every level's length matches d and the leaf predicate holds on every
\* innermost sequence
ShapeOK(n, d, f) ==
    /\ \A l \in 1..Len(d) : \A x \in NodesAt(n, l - 1) : Len(x.a) = d[l]
    /\ \A x \in NodesAt(n, Len(d) - 1) : LeafHolds(f, x)

\* C4: on a sequence nested as deep as dims is long (rank 1 or more),
\* json_array_check_dimensions_f returns true exactly when the length at every
\* level equals the entry of dims for that level and the leaf predicate holds
\* on every innermost sequence, so a mismatch at any level makes it return
\* false; with dims empty an empty sequence is valid.
C4_ShapeValidator ==
    pc = "done" =>
        /\ ret \in {0, 1}
        /\ Len(dim) >= 1 /\ SequenceNested(node, Len(dim)) =>
                (ret = 1 <=> ShapeOK(node, dim, check))
        /\ Len(dim) = 0 /\ node.t = "array" /\ Len(node.a) = 0 => ret = 1

\* a 2 x 2 block of reals accepted under the real-leaf predicate
C4_Witness ==
    /\ pc = "done"
    /\ dim = <<2, 2>>
    /\ SequenceNested(node, 2)
    /\ check = "json_array_is_homogenous_real"
    /\ ret = 1

\* some node at a level that d still covers is no sequence
NonSequenceWithin(n, d) ==
    \E l \in 0..(Len(d) - 1) : ~SequenceNested(n, l + 1)

\* C22: for non-empty dims json_array_check_dimensions_f returns false
\* whenever the node, or any node at a level that dims still covers, is not a
\* sequence, the case of an expected length of 0 included.
C22_NonSequenceInvalid ==
    (mode = "shape" /\ pc = "done" /\ Len(dim) >= 1 /\ NonSequenceWithin(node, dim)) =>
        ret = 0

(***************************************************************************)
(* Properties of makeMtz, stated on the tree itself.                       *)
(***************************************************************************)
TreeCrystalsOf(jsn) == json_object_get(jsn, "Crystals")
TreeSetsOf(jsn, i) == json_object_get(json_array_get(TreeCrystalsOf(jsn), i - 1), "Datasets")
TreeColsOf(jsn, i, j) == json_object_get(json_array_get(TreeSetsOf(jsn, i), j - 1), "Columns")
TreeDataOf(jsn, r) ==
    json_object_get(json_array_get(TreeColsOf(jsn, r[1], r[2]), r[3] - 1), "Data")

\* the places <<crystal, dataset, column>> of the columns of the tree
TreeColumnPlaces(jsn) ==
    UNION {UNION {{<<i, j, k>> : k \in 1..json_array_size(TreeColsOf(jsn, i, j))} :
                    j \in 1..json_array_size(TreeSetsOf(jsn, i))} :
             i \in 1..json_array_size(TreeCrystalsOf(jsn))}

ObjectList(j) == j.t = "array" /\ \A i \in 1..Len(j.a) : j.a[i].t = "object"

\* Crystals, every Datasets and every Columns is a list of objects and every
\* Data an array
ListsGiven(jsn) ==
    /\ ObjectList(TreeCrystalsOf(jsn))
    /\ \A i \in 1..json_array_size(TreeCrystalsOf(jsn)) :
          /\ ObjectList(TreeSetsOf(jsn, i))
          /\ \A j \in 1..json_array_size(TreeSetsOf(jsn, i)) : ObjectList(TreeColsOf(jsn, i, j))
    /\ \A r \in TreeColumnPlaces(jsn) : TreeDataOf(jsn, r).t = "array"

SomeListEmpty(jsn) ==
    \/ json_array_size(TreeCrystalsOf(jsn)) = 0
    \/ \E i \in 1..json_array_size(TreeCrystalsOf(jsn)) :
          \/ json_array_size(TreeSetsOf(jsn, i)) = 0
          \/ \E j \in 1..json_array_size(TreeSetsOf(jsn, i)) :
                json_array_size(TreeColsOf(jsn, i, j)) = 0

EqualLengths(jsn) ==
    \A r, q \in TreeColumnPlaces(jsn) :
        json_array_size(TreeDataOf(jsn, r)) = json_array_size(TreeDataOf(jsn, q))

\* the tree passes the count and the consistency pass of the specification
StructureOK(jsn) == ListsGiven(jsn) /\ ~SomeListEmpty(jsn) /\ EqualLengths(jsn)

\* the tree carries the top-level keys of the schema, every batch three axis
\* labels, no crystal more cell constants and no sort order more entries than
\* the record has slots: absent or mistyped fields are the subject of C10,
\* the cell constants of C20, the sort order of C21
Conformant(jsn) ==
    /\ json_is_object(jsn)
    /\ \A m \in 1..Len(TopKeys) : TopKeys[m] \in DOMAIN jsn.o
    /\ ~(/\ json_is_array(jsn.o.Crystals)
          /\ json_array_is_homogenous_object(jsn.o.Crystals) = 1
          /\ CellOverrun(jsn.o.Crystals))
    /\ ~OrderOverrun(jsn.o.SortOrder)
    /\ \A b \in 1..json_array_size(jsn.o.Batches) :
          \A i \in 0..2 :
              json_is_string(json_array_get(json_object_get(jsn.o.Batches.a[b], "AxesLabels"), i))

\* C2: makeMtz returns the structural error for every tree in which two
\* columns, in any crystal and any dataset, have Data arrays of different
\* lengths; it returns a Record for every conformant tree with non-empty
\* lists in which all Data arrays have the same length.
C2_ReflectionCount ==
    pc = "built" =>
        /\ (\E r, q \in TreeColumnPlaces(json_in) :
               /\ TreeDataOf(json_in, r).t = "array"
               /\ TreeDataOf(json_in, q).t = "array"
               /\ Len(TreeDataOf(json_in, r).a) # Len(TreeDataOf(json_in, q).a))
           => mtz_out = NULL
        /\ Conformant(json_in) /\ StructureOK(json_in) => IsMtz(mtz_out)

\* a tree of two crystals rejected for the lengths of its Data arrays alone
C2_Witness ==
    /\ pc = "built"
    /\ Conformant(json_in)
    /\ ListsGiven(json_in) /\ ~SomeListEmpty(json_in) /\ ~EqualLengths(json_in)
    /\ json_array_size(TreeCrystalsOf(json_in)) = 2
    /\ mtz_out = NULL

\* C3: makeMtz returns the structural error for every tree whose Crystals
\* list is empty, or in which some Datasets list or some Columns list is
\* empty.
C3_EmptyListsRejected ==
    pc = "built" /\ Conformant(json_in) /\ ListsGiven(json_in) /\ SomeListEmpty(json_in)
        => mtz_out = NULL

\* the column of the record at the place r of the tree
BuiltRef(mtz, r) == ColumnAt(mtz, r).ref

\* C6: when Data holds the string "NaN" (or any value that is no number) at
\* a position, makeMtz still returns a Record, the slot of that position keeps
\* its zero default and is not the missing number flag, and the reals at the
\* other positions are copied.
C6_ImportAsymmetry ==
    pc = "built" /\ Conformant(json_in) /\ StructureOK(json_in) =>
        /\ IsMtz(mtz_out)
        /\ \A r \in TreeColumnPlaces(json_in) :
              \A i \in 1..Len(TreeDataOf(json_in, r).a) :
                  LET e == TreeDataOf(json_in, r).a[i]
                  IN /\ e.t = "real" => BuiltRef(mtz_out, r)[i] = e.r
                     /\ e.t \notin {"real", "integer"} =>
                           BuiltRef(mtz_out, r)[i] = 0 /\ BuiltRef(mtz_out, r)[i] # FNAN

\* Data [1.0, "NaN"] built into the reflections 1, 0
C6_Witness ==
    /\ pc = "built"
    /\ IsMtz(mtz_out)
    /\ Conformant(json_in)
    /\ TreeDataOf(json_in, <<1, 1, 1>>) = JArr(<<JReal(1), JStr(NaNToken)>>)
    /\ BuiltRef(mtz_out, <<1, 1, 1>>) = <<1, 0>>

\* C7: for a Title string of any length makeMtz returns a Record whose title
\* is the Title's prefix of at most TitleSize - 1 (70) characters, which
\* leaves room for the terminator in the TitleSize bytes of the field.
C7_TitleTruncation ==
    pc = "built" /\ Conformant(json_in) /\ StructureOK(json_in)
                 /\ json_is_string(json_in.o.Title) =>
        /\ IsMtz(mtz_out)
        /\ Len(mtz_out.title) <= TitleSize - 1
        /\ mtz_out.title = SubSeq(json_in.o.Title.s, 1, Len(mtz_out.title))
        /\ Len(mtz_out.title) = Min(Len(json_in.o.Title.s), TitleSize - 1)

\* a Title longer than the field, cut to 70 characters
C7_Witness ==
    /\ pc = "built"
    /\ IsMtz(mtz_out)
    /\ Conformant(json_in) /\ json_is_string(json_in.o.Title)
    /\ Len(json_in.o.Title.s) > TitleSize
    /\ Len(mtz_out.title) = 70

\* the source id at the place r of the tree
TreeSourceOf(jsn, r) ==
    json_object_get(json_array_get(TreeColsOf(jsn, r[1], r[2]), r[3] - 1), "ColumnID")

\* C8: after makeMtz on a tree whose SortOrder lists at most NOrder integers,
\* slot i of order is the first column, in crystal then dataset then column
\* order, whose source id is the i-th integer, and is absent when no column
\* has that id; an id without a column is no error.
C8_SortOrder ==
    pc = "built" /\ Conformant(json_in) /\ StructureOK(json_in)
                 /\ json_is_array(json_in.o.SortOrder)
                 /\ Len(json_in.o.SortOrder.a) <= NOrder
                 /\ (\A i \in 1..Len(json_in.o.SortOrder.a) :
                        json_is_integer(json_in.o.SortOrder.a[i]))
                 /\ (\A r \in TreeColumnPlaces(json_in) :
                        json_is_integer(TreeSourceOf(json_in, r))) =>
        /\ IsMtz(mtz_out)
        /\ \A i \in 1..Len(json_in.o.SortOrder.a) :
              LET id == json_in.o.SortOrder.a[i].i
                  with == {r \in TreeColumnPlaces(json_in) : TreeSourceOf(json_in, r).i = id}
                  slot == mtz_out.order[i]
              IN IF with = {} THEN slot = NoCol
                 ELSE /\ slot \in with
                      /\ \A q \in with : q = slot \/ VisitedBefore(slot, q)

\* SortOrder [7, 3] over the source ids 1, 3, 7 resolved to the columns with
\* the ids 7 and 3
C8_Witness ==
    /\ pc = "built"
    /\ IsMtz(mtz_out)
    /\ Conformant(json_in)
    /\ \A r \in TreeColumnPlaces(json_in) : json_is_integer(TreeSourceOf(json_in, r))
    /\ json_in.o.SortOrder = JArr(<<JInt(7), JInt(3)>>)
    /\ {TreeSourceOf(json_in, r).i : r \in TreeColumnPlaces(json_in)} = SourceIds
    /\ mtz_out.order[1] # NoCol /\ ColumnAt(mtz_out, mtz_out.order[1]).source = 7
    /\ mtz_out.order[2] # NoCol /\ ColumnAt(mtz_out, mtz_out.order[2]).source = 3
    /\ mtz_out.order[3] = NoCol

\* C9: for a Record built by makeMtz from a tree whose columns all have Data
\* of length n, the reflection count is n and readMtz emits, for every
\* column, a Data array of n elements.
C9_BuildThenRead ==
    pc = "readback" /\ Conformant(json_in) /\ StructureOK(json_in) /\ json_out # Fault =>
        \A r \in TreeColumnPlaces(json_in) :
            /\ mtz_out.nref = Len(TreeDataOf(json_in, r).a)
            /\ json_array_size(TreeDataOf(json_out, r)) = Len(TreeDataOf(json_in, r).a)

\* C10: for every tree whose Crystals, Datasets, Columns and Data pass the
\* count and the consistency pass, makeMtz does not return the structural
\* error, whatever optional fields are absent or of the wrong type.
C10_FieldSkipsNeverAbort ==
    pc = "built" /\ StructureOK(json_in) => mtz_out # NULL

(***************************************************************************)
(* Properties of readMtz and of the round trip.                            *)
(***************************************************************************)
\* C5: for every column and every position below the reflection count,
\* readMtzSet emits at that position of Data the string "NaN" when the value
\* satisfies ccp4_ismnf and the value as a real otherwise, so Data has nref
\* elements in the stored order.
C5_MissingValueExport ==
    pc = "read" /\ json_out # Fault =>
        \A r \in Columns(mtz_in) :
            LET data == TreeDataOf(json_out, r)
                col == ColumnAt(mtz_in, r)
            IN /\ json_is_array(data)
               /\ Len(data.a) = mtz_in.nref
               /\ \A i \in 1..mtz_in.nref :
                     IF ccp4_ismnf(mtz_in, col.ref[i])
                     THEN data.a[i] = JStr(NaNToken)
                     ELSE data.a[i] = JReal(col.ref[i])

\* the reflections 1, missing read as [1.0, "NaN"]
C5_Witness ==
    /\ pc = "read"
    /\ json_out # Fault
    /\ ColumnAt(mtz_in, <<1, 1, 1>>).ref = <<1, FNAN>>
    /\ TreeDataOf(json_out, <<1, 1, 1>>) = JArr(<<JReal(1), JStr(NaNToken)>>)

\* the lines of a buffer of n records, without their padding
LinesOf(buf, n) == [i \in 1..n |-> stringtrimn(RecordLine(buf, i - 1), MTZRECORDLENGTH)]

NoMissing(mtz) ==
    \A r \in Columns(mtz) :
        \A i \in 1..Len(ColumnAt(mtz, r).ref) : ~ccp4_ismnf(mtz, ColumnAt(mtz, r).ref[i])

\* the fields C1 lists, text compared without its padding
SameRecord(a, b) ==
    /\ a.title = b.title
    /\ a.histlines = b.histlines
    /\ LinesOf(a.hist, a.histlines) = LinesOf(b.hist, b.histlines)
    /\ a.nxtal = b.nxtal
    /\ a.xtal = b.xtal
    /\ a.nref = b.nref
    /\ [a.mtzsymm EXCEPT !.spcgrpname = CStr(@), !.pgname = CStr(@)]
         = [b.mtzsymm EXCEPT !.spcgrpname = CStr(@), !.pgname = CStr(@)]
    /\ a.batch = b.batch
    /\ a.order = b.order
    /\ a.n_unknown_headers = b.n_unknown_headers
    /\ LinesOf(a.unknown_headers, a.n_unknown_headers)
         = LinesOf(b.unknown_headers, b.n_unknown_headers)

\* C1: for every Record R, here without missing values and without unknown
\* header lines, makeMtz(readMtz(R)) is a Record equal to R in title,
\* history, crystals, datasets, columns and their reflections, symmetry,
\* batches, sort order and unknown headers.
C1_RoundTrip ==
    pc = "rebuilt" /\ NoMissing(mtz_in) /\ mtz_in.n_unknown_headers = 0 =>
        IsMtz(mtz_out) /\ SameRecord(mtz_in, mtz_out)

\* C16: for every job label of length L <= 55, makeTimestamp fills exactly the
\* 80 characters of one history line: the label at positions 0..L-1, one space
\* at L, the first 24 characters of the clock text at L+1..L+24 and spaces from
\* L+25 to 79 (positions counted from 0; the sequences here count from 1).
C16_TimestampFormat ==
    (mode = "timestamp" /\ pc = "stamped" /\ Len(env.jobstring) <= JobSize - 1) =>
        LET L == Len(env.jobstring)
        IN  /\ timestamp.t = "buffer"
            /\ Len(timestamp.s) = MTZRECORDLENGTH
            /\ \A i \in 1..MTZRECORDLENGTH :
                    timestamp.s[i] =
                        IF i <= L THEN env.jobstring[i]
                        ELSE IF i = L + 1 THEN 32
                        ELSE IF i <= L + 1 + TimeSize THEN env.timestring[i - L - 1]
                        ELSE 32

\* a label shorter than the limit has been stamped, with padding after the time
C16_Witness ==
    /\ mode = "timestamp" /\ pc = "stamped"
    /\ Len(env.jobstring) = 23
    /\ timestamp.t = "buffer"
    /\ timestamp.s[MTZRECORDLENGTH] = 32

\* C19: for every column and position i, when the tree's Data element at i is
\* typed as a number, real or integer, the built column holds that number at
\* reflection i.
C19_NumbersCopied ==
    pc = "built" /\ Conformant(json_in) /\ StructureOK(json_in) =>
        /\ IsMtz(mtz_out)
        /\ \A r \in TreeColumnPlaces(json_in) :
              \A i \in 1..Len(TreeDataOf(json_in, r).a) :
                  LET e == TreeDataOf(json_in, r).a[i]
                  IN /\ e.t = "real" => BuiltRef(mtz_out, r)[i] = json_real_value(e)
                     /\ e.t = "integer" => BuiltRef(mtz_out, r)[i] = json_integer_value(e)

\* the cell constants of crystal c of the tree, NULL when the key is absent
TreeCellOf(jsn, c) == json_unpack_o(json_object_get(jsn, "Crystals").a[c], "CellConstants")

\* C20: a crystal's CellConstants is copied only when it is a sequence of
\* exactly 6 reals; for any other length the cell keeps its default, and no
\* element beyond the 6 slots is written (no undefined write happens).
C20_CellGating ==
    pc = "built" /\ json_is_object(json_in) =>
        /\ mtz_out # Fault
        /\ IsMtz(mtz_out) =>
              \A c \in 1..Len(mtz_out.xtal) :
                  LET jcell == TreeCellOf(json_in, c)
                  IN  mtz_out.xtal[c].cell =
                         IF /\ jcell # NULL
                            /\ json_is_array(jcell)
                            /\ json_array_is_homogenous_real(jcell) = 1
                            /\ json_array_size(jcell) = NCell
                         THEN [i \in 1..NCell |-> json_real_value(jcell.a[i])]
                         ELSE MtzMallocXtal(0).cell

\* the positions of the log that hold the event op on blk
LogIndex(op, blk) == {k \in 1..Len(log) : log[k].op = op /\ log[k].blk = blk}

\* C15: on every exit path of makeMtz every counting structure allocated
\* during the count pass, the per-crystal arrays as well as the per-dataset and
\* per-column arrays, has been released when the function returns.
C15_CountPassReleased ==
    pc = "built" /\ LogIndex("return", "makeMtz") # {} =>
        \A k \in 1..Len(log) :
            log[k].op = "malloc" =>
                \E m \in (k + 1)..Len(log) :
                    /\ log[m].op = "free" /\ log[m].blk = log[k].blk
                    /\ log[m].i = log[k].i /\ log[m].j = log[k].j

\* C18: in every run of makeMtz the Record is allocated only after the whole
\* count pass and the comparison of the column lengths have succeeded (every
\* list is a list of objects, every Data an array, all of one length, and all
\* counting allocations are earlier in the run); a run that ends in a
\* structural error never allocated a Record.
C18_ValidateBeforeAllocate ==
    pc = "built" =>
        /\ mtz_out = NULL => LogIndex("call", "MtzMalloc") = {}
        /\ Cardinality(LogIndex("call", "MtzMalloc")) <= 1
        /\ \A k \in LogIndex("call", "MtzMalloc") :
              /\ ListsGiven(json_in) /\ EqualLengths(json_in)
              /\ \A m \in 1..Len(log) : log[m].op = "malloc" => m < k

\* a tree that passed the count pass, with its counting arrays allocated, and
\* was rejected for the lengths of its Data arrays
C18_Witness ==
    /\ pc = "built"
    /\ mtz_out = NULL
    /\ ListsGiven(json_in) /\ ~SomeListEmpty(json_in) /\ ~EqualLengths(json_in)
    /\ LogIndex("malloc", "refl") # {}
    /\ LogIndex("return", "makeMtz") # {}

C12_ImportFailureCodes ==
    mode = "json2mtz" /\ pc = "returned" =>
        /\ ~env.loaded => ret = 1
        /\ (env.loaded /\ LogIndex("return", "makeMtz") # {}
                       /\ LogIndex("call", "MtzMalloc") = {}) => ret = 2
        /\ ret \in {1, 2} =>
              /\ LogIndex("call", "MtzPut") = {}
              /\ LogIndex("call", "makeTimestamp") = {}
              /\ mtz_out = NULL /\ timestamp = NULL
        /\ ret = 0 => Len(log) > 0 /\ log[Len(log)] = Call("MtzPut")
        /\ ret \in {0, 1, 2}

\* a loaded tree that makeMtz rejected for the lengths of its columns, with the
\* timestamp option on
C12_Witness ==
    /\ mode = "json2mtz" /\ pc = "returned"
    /\ env.loaded /\ env.timestamp
    /\ ListsGiven(json_in) /\ ~EqualLengths(json_in)
    /\ ret = 2

\* line n (from 1) of a history buffer
HistLine(hist, n) == SubSeq(hist, MTZRECORDLENGTH * (n - 1) + 1, MTZRECORDLENGTH * n)

\* the history before the timestamp step: of the record read by mtz2json, or of
\* the record makeMtz built from the History strings of the tree
HistoryBefore ==
    IF mode = "mtz2json" THEN [histlines |-> mtz_in.histlines, hist |-> mtz_in.hist]
    ELSE [histlines |-> json_array_size(json_in.o.History),
          hist |-> CopyLines(json_in.o.History)]

\* C17: with the timestamp option on, in mtz2json and in json2mtz the history
\* after the step has one line more than before, every earlier line is
\* unchanged and at its position (lines shorter than the line width that came
\* from a tree included) and the timestamp is the last line; with the option
\* off the history is unchanged.
C17_PureAppend ==
    mode \in {"mtz2json", "json2mtz"} /\ pc = "returned" /\ IsMtz(mtz_out) =>
        IF env.timestamp
        THEN /\ mtz_out.histlines = HistoryBefore.histlines + 1
             /\ Len(mtz_out.hist) = MTZRECORDLENGTH * mtz_out.histlines
             /\ \A n \in 1..HistoryBefore.histlines :
                    HistLine(mtz_out.hist, n) = HistLine(HistoryBefore.hist, n)
             /\ HistLine(mtz_out.hist, mtz_out.histlines) = timestamp.s
        ELSE /\ mtz_out.histlines = HistoryBefore.histlines
             /\ mtz_out.hist = HistoryBefore.hist

\* the option letters of the command line
GivenOptions == {env.options[k] : k \in 1..Len(env.options)}

\* C13: the mtz2json process, asked for a conversion (neither help nor version),
\* exits with 0 only on a successful conversion, with 2 when the input file is
\* not found or unreadable, and with 1 on every other failure.
C13_ExportExitCodes ==
    (mode = "mtz2json_main" /\ pc = "returned" /\ GivenOptions \cap {"h", "v"} = {}) =>
        /\ ret = 0 =>
              /\ LogIndex("call", "json_dump_file") # {}
              /\ env.dumped
        /\ (LogIndex("call", "access") # {} /\ ~env.readable) => ret = 2
        /\ ret = 2 => ~env.readable
        /\ ret \in {0, 1, 2}

\* C14: with --force / -f given both executables accept equal input and output
\* file names and run the conversion; without it and with equal names the
\* conversion is not run and the process exits with 1.  (Command lines of two
\* file names whose other options are options of the executable, and neither
\* help nor version.)
C14_Force ==
    (/\ mode \in {"mtz2json_main", "json2mtz_main"} /\ pc \in {"returned", "fault"}
     /\ env.nfiles = 2 /\ env.same
     /\ GivenOptions \subseteq
            (IF mode = "mtz2json_main" THEN {"c", "n", "f"} ELSE {"n", "f"})) =>
        IF "f" \in GivenOptions
        THEN log # <<>>
        ELSE log = <<>> /\ ret = 1

\* C26: for a job label longer than 55 characters makeTimestamp uses the
\* label's first 55 characters, one space and 24 characters of time text, and
\* writes exactly the 80 bytes of the buffer and none beyond it (the padding
\* length is never negative).
C26_LabelTruncation ==
    (mode = "timestamp" /\ pc = "stamped" /\ Len(env.jobstring) > JobSize - 1) =>
        /\ timestamp.t = "buffer"
        /\ \A i \in 1..MTZRECORDLENGTH :
                timestamp.s[i] =
                    IF i <= JobSize - 1 THEN env.jobstring[i]
                    ELSE IF i = JobSize THEN 32
                    ELSE env.timestring[i - JobSize]

\* C28: when the input file is readable but MtzGet yields no record, mtz2json
\* returns a non-zero code and does not use the missing record: the timestamp
\* step, the reader and the text printer are not run.
C28_DecodeError ==
    (mode = "mtz2json" /\ pc # "start" /\ env.readable /\ ~env.parsed) =>
        /\ pc = "returned"
        /\ ret # 0
        /\ \A f \in {"MtzAssignHKLtoBase", "makeTimestamp", "readMtz", "json_dump_file"} :
              LogIndex("call", f) = {}

\* C29: json2mtz returns 0 only when the binary writer reported success; when
\* writing the output file fails it returns a non-zero code.
C29_WriteFailure ==
    (mode = "json2mtz" /\ pc = "returned") =>
        /\ ret = 0 => env.written
        /\ (LogIndex("call", "MtzPut") # {} /\ ~env.written) => ret # 0

\* C21: after makeMtz the record's sort order has at most 5 slots written:
\* for a tree whose SortOrder list has any length, more than 5 integers
\* included, the builder completes and no slot of index 5 or more is stored to.
C21_SortOrderBound ==
    (mode = "import" /\ pc = "built" /\ StructureOK(json_in)
        /\ json_is_object(json_in) /\ SortOrderAccepted(json_unpack_o(json_in, "SortOrder"))
        /\ Conformant(PutAt(json_in, <<K("SortOrder")>>, JArr(<<>>)))) =>
        /\ IsMtz(mtz_out)
        /\ \A orderindex \in SortOrderStores(json_unpack_o(json_in, "SortOrder")) :
                orderindex < NOrder

(***************************************************************************)
(* Properties of setMtzBatches.                                            *)
(***************************************************************************)
TreeBatchesOf(jsn) == json_object_get(jsn, "Batches")
TreeBatchOf(jsn, b) == json_array_get(TreeBatchesOf(jsn), b - 1)

\* the tree passes the two passes, carries the top-level keys, a list of
\* objects as Batches, and nothing that overruns cell or order
BatchesReached(jsn) ==
    /\ json_is_object(jsn)
    /\ \A m \in 1..Len(TopKeys) : TopKeys[m] \in DOMAIN jsn.o
    /\ StructureOK(jsn)
    /\ ObjectList(jsn.o.Batches)
    /\ ~CellOverrun(jsn.o.Crystals)
    /\ ~OrderOverrun(jsn.o.SortOrder)

ThreeStrings(j) ==
    json_is_array(j) /\ json_array_size(j) = 3 /\ json_array_is_homogenous_string(j) = 1

\* C23: when a batch's AxesLabels is absent, is no sequence of 3 strings or
\* holds a non-string element, setMtzBatches completes, leaves the three axis
\* labels of that batch at their default and reads nothing from the missing
\* elements.
C23_AxesLabelsOptional ==
    (mode = "import" /\ pc = "built" /\ BatchesReached(json_in)) =>
        \A b \in 1..json_array_size(TreeBatchesOf(json_in)) :
            ~ThreeStrings(json_object_get(TreeBatchOf(json_in, b), "AxesLabels")) =>
                /\ IsMtz(mtz_out)
                /\ mtz_out.batch[b].gonlab = MtzMallocBatch.gonlab

\* the integer fields of a batch that the model keeps: the key readMtzBatch
\* emits and the member of the record
BatchIntegerFields ==
    {<<"DatasetID", "nbsetid">>, <<"CrystalNumber", "ncryst">>, <<"BatchNumber", "num">>,
     <<"OrientationBlockType", "iortyp">>, <<"JumpAxis", "jumpax">>}

\* C24: every field of a batch that readMtzBatch emits as an integer is stored
\* by setMtzBatches when the tree holds an integer under its key.
C24_BatchIntegers ==
    (mode = "import" /\ pc = "built" /\ BatchesReached(json_in) /\ IsMtz(mtz_out)) =>
        \A b \in 1..json_array_size(TreeBatchesOf(json_in)) :
            \A f \in BatchIntegerFields :
                LET jvalue == json_object_get(TreeBatchOf(json_in, b), f[1])
                IN  json_is_integer(jvalue) =>
                        mtz_out.batch[b][f[2]] = json_integer_value(jvalue)

\* C25: when the tree's Batches is a list of n objects, setMtzBatches builds a
\* chain of exactly n Batch nodes whose k-th node carries the title, numbers
\* and wavelength of the k-th tree element, and readMtz emits one element per
\* node in chain order; for n = 0 the record has no batch.
C25_BatchSequence ==
    (mode = "import" /\ pc \in {"built", "readback"} /\ BatchesReached(json_in)
        /\ IsMtz(mtz_out)) =>
        LET n == json_array_size(TreeBatchesOf(json_in))
        IN  /\ Len(mtz_out.batch) = n
            /\ \A k \in 1..n :
                  LET e == TreeBatchOf(json_in, k)
                      jtitle == json_object_get(e, "Title")
                      jnum == json_object_get(e, "BatchNumber")
                      jnbsetid == json_object_get(e, "DatasetID")
                      jalambd == json_object_get(e, "Wavelength")
                  IN  /\ json_is_string(jtitle) =>
                             mtz_out.batch[k].title = Prefix(jtitle.s, TitleSize - 1)
                      /\ json_is_integer(jnum) => mtz_out.batch[k].num = jnum.i
                      /\ json_is_integer(jnbsetid) => mtz_out.batch[k].nbsetid = jnbsetid.i
                      /\ json_is_real(jalambd) => mtz_out.batch[k].alambd = jalambd.r
            /\ (pc = "readback" /\ json_out # Fault) =>
                  /\ json_array_size(json_out.o.Batches) = n
                  /\ \A k \in 1..n :
                        /\ json_out.o.Batches.a[k].o.BatchNumber = JInt(mtz_out.batch[k].num)
                        /\ json_out.o.Batches.a[k].o.Title = JStr(mtz_out.batch[k].title)

\* three batches built and read back, and no batch at all
C25_Witness ==
    /\ mode = "import" /\ pc = "readback" /\ BatchesReached(json_in)
    /\ json_out # Fault
    /\ json_array_size(TreeBatchesOf(json_in)) = MaxChain
    /\ json_array_size(json_out.o.Batches) = MaxChain
    /\ json_out.o.Batches.a[1].o.BatchNumber # json_out.o.Batches.a[MaxChain].o.BatchNumber

(***************************************************************************)
(* Bounded string fields.  A field written by snprintf is held as its      *)
(* string (the terminator follows it); the two names written by strncpy    *)
(* are held as the bytes of their arrays.                                  *)
(***************************************************************************)
\* the string s and its terminator fit a field of cap bytes
Fits(s, cap) == Len(s) <= cap - 1

\* the array buf of cap bytes holds a terminator
Terminated(buf, cap) == Len(buf) = cap /\ \E i \in 1..cap : buf[i] = 0

\* C27: every bounded string field written by the builder (title, crystal,
\* project and dataset names, column label, type, group name, group type and
\* source, batch title, axis labels, space-group and point-group name) holds,
\* for a source string of any length, at most capacity - 1 characters followed
\* by a terminator inside the field's capacity.
C27_BoundedStrings ==
    (mode = "import" /\ pc = "built" /\ IsMtz(mtz_out)) =>
        /\ Fits(mtz_out.title, TitleSize)
        /\ \A i \in 1..Len(mtz_out.xtal) :
              LET xtal == mtz_out.xtal[i]
              IN  /\ Fits(xtal.xname, NameSize)
                  /\ Fits(xtal.pname, NameSize)
                  /\ \A j \in 1..Len(xtal.set) :
                        /\ Fits(xtal.set[j].dname, NameSize)
                        /\ \A k \in 1..Len(xtal.set[j].col) :
                              LET col == xtal.set[j].col[k]
                              IN  /\ Fits(col.label, LabelSize)
                                  /\ Fits(col.type, TypeSize)
                                  /\ Fits(col.grpname, LabelSize)
                                  /\ Fits(col.grptype, GrpTypeSize)
                                  /\ Fits(col.colsource, ColSourceSize)
        /\ \A b \in 1..Len(mtz_out.batch) :
              /\ Fits(mtz_out.batch[b].title, TitleSize)
              /\ \A i \in 1..3 : Fits(mtz_out.batch[b].gonlab[i], GonlabSize)
        /\ Terminated(mtz_out.mtzsymm.spcgrpname, SpgNameSize)
        /\ Terminated(mtz_out.mtzsymm.pgname, PgNameSize)

(***************************************************************************)
(* Properties of stringtrimn as readMtz uses it.                           *)
(***************************************************************************)
\* the line up to its first NUL, without its trailing spaces
Trimmed(line) ==
    LET s == CStr(line)
        last == CHOOSE e \in 0..Len(s) :
                    /\ e > 0 => s[e] # 32
                    /\ \A i \in (e + 1)..Len(s) : s[i] = 32
    IN SubSeq(s, 1, last)

\* C30: stringtrimn stays inside its buffer for every line, a line of spaces
\* and NUL bytes only and an empty line included, and returns the line without
\* its trailing padding, so readMtz emits a string for every history line and
\* for every unknown-header line it reads.
C30_TrimInBounds ==
    (mode = "export" /\ pc = "read") =>
        /\ json_out # Fault
        /\ json_array_size(json_out.o.History) = mtz_in.histlines
        /\ \A i \in 1..mtz_in.histlines :
              json_out.o.History.a[i] = JStr(Trimmed(RecordLine(mtz_in.hist, i - 1)))
        /\ \A i \in 1..json_array_size(json_out.o.UnknownHeaders) :
              json_out.o.UnknownHeaders.a[i] =
                  JStr(Trimmed(RecordLine(mtz_in.unknown_headers, i - 1)))

====
